---- MODULE Spec2Model ----
(***************************************************************************)
(* A model of the symbol table, the dependency resolver, the project       *)
(* analyzer and the tree shaker of procbase (src/lang).                    *)
(*                                                                         *)
(* Strings are sequences of atoms, so that concatenation, path.basename    *)
(* and the `file:name` id format are computed and not assumed: the file    *)
(* name "/p/a.ts" is <<"/p/", "a", ".ts">>, and the id "a.ts:x" is         *)
(* <<"a", ".ts", ":", "x">>.  A JS Map is a sequence of [k, v] entries in  *)
(* insertion order and a JS Set a duplicate-free sequence in insertion     *)
(* order, which is what their iteration exposes.                           *)
(***************************************************************************)
EXTENDS Integers, Sequences, FiniteSets, TLC

VARIABLES
  symbolTable,   \* ProjectSymbolTableState: the four maps of the table
  result,        \* the TreeShakingResult returned last, or NoResult
  report,        \* the DOT report generated last, or NoReport
  lastCall,      \* the operation invoked last, with its outcome
  calls,         \* number of operations invoked so far
  roots,         \* rootSymbols of the calculateClosure call in progress
  loop,          \* its loop state: queue, visited, closure
  iterations,    \* iterations of its while loop so far
  otherRoots,    \* a second list of root symbols
  closures,      \* closures returned by calculateClosure, or NoClosures
  program,       \* the source files of the TypeScript program
  rootFiles,     \* the root file names given to the analyzer
  analysisOptions, \* the AnalysisOptions given to the analyzer
  compilerDiagnostics, \* the diagnostics of the TypeScript program
  analysis,      \* the ProjectAnalysisResult, or NoAnalysis
  servers,       \* the server processes spawned so far, each with its state
  statusFile,    \* the content of server-status.json, or NoFile
  hasCurrent,    \* whether the __current__ symlink exists
  cli,           \* the CLI processes: the command each runs and its position
  commands,      \* number of commands invoked so far
  entryStore,    \* the keys of the entry store of the semantic DB
  semanticIndex, \* the keys of the semantic index of the semantic DB
  tasks,         \* the setEntry and delEntry calls, each with its position
  symbolRows,    \* the rows of the symbols table of the SQLite symbol DB
  dependencyRows, \* the rows of its dependencies table
  lastAdded      \* the symbols given to the last addSymbols of each file

callVars == <<result, report, lastCall, calls>>
closureVars == <<roots, loop, iterations, otherRoots, closures>>
analyzeVars == <<program, rootFiles, analysisOptions, compilerDiagnostics, analysis>>
serverVars == <<servers, statusFile, hasCurrent, cli, commands>>
semanticVars == <<entryStore, semanticIndex, tasks>>
sqliteVars == <<symbolRows, dependencyRows, lastAdded>>
serviceVars == <<serverVars, semanticVars, sqliteVars>>
vars == <<symbolTable, callVars, closureVars, analyzeVars, serviceVars>>

---------------------------------------------------------------------------
(* Bounds of the model.                                                    *)

MaxCalls == 3        \* operations invoked on one table
MaxInputFiles == 2   \* files inserted into the table a closure is computed on
MaxCommands == 3     \* commands the CLI processes run, each spawning at most one server
MaxTasks == 3        \* setEntry and delEntry calls on the semantic DB

---------------------------------------------------------------------------
(* JS Set and Map.                                                         *)

SetElems(s) == {s[i] : i \in 1..Len(s)}
SetHas(s, x) == \E i \in 1..Len(s) : s[i] = x
SetAdd(s, x) == IF SetHas(s, x) THEN s ELSE Append(s, x)

MapHas(m, key) == \E i \in 1..Len(m) : m[i].k = key
MapGet(m, key) == m[CHOOSE i \in 1..Len(m) : m[i].k = key].v
MapSet(m, key, val) ==
  IF MapHas(m, key)
    THEN [i \in 1..Len(m) |-> IF m[i].k = key THEN [k |-> key, v |-> val] ELSE m[i]]
    ELSE Append(m, [k |-> key, v |-> val])
MapKeys(m) == [i \in 1..Len(m) |-> m[i].k]
MapValues(m) == [i \in 1..Len(m) |-> m[i].v]
MapKeySet(m) == {m[i].k : i \in 1..Len(m)}

---------------------------------------------------------------------------
(* The symbol table.                                                       *)

\* `${fileSymbols.fileName}:${symbol.name}`
fullNameOf(fileName, name) == fileName \o <<":", name>>

createProjectSymbolTable ==
  [fileSymbols |-> << >>, globalSymbols |-> << >>,
   dependencies |-> << >>, reverseDependencies |-> << >>]

\* symbol.dependencies.forEach(dep => reverseDependencies.get(dep).add(fullName)),
\* creating the entry of dep when it has none.
RECURSIVE addReverse(_, _, _)
addReverse(reverseDependencies, deps, fullName) ==
  IF Len(deps) = 0 THEN reverseDependencies
  ELSE LET dep == Head(deps)
           have == IF MapHas(reverseDependencies, dep)
                     THEN reverseDependencies
                     ELSE MapSet(reverseDependencies, dep, << >>)
           added == MapSet(have, dep, SetAdd(MapGet(have, dep), fullName))
       IN addReverse(added, Tail(deps), fullName)

\* The body of the forEach of addFileSymbols, for one symbol.
addSymbolEntry(table, fileName, symbol) ==
  LET fullName == fullNameOf(fileName, symbol.name)
  IN [table EXCEPT
        !.globalSymbols = MapSet(@, fullName, symbol),
        !.dependencies = MapSet(@, fullName, symbol.dependencies),
        !.reverseDependencies = addReverse(@, symbol.dependencies, fullName)]

RECURSIVE addSymbolEntries(_, _, _)
addSymbolEntries(table, fileName, symbols) ==
  IF Len(symbols) = 0 THEN table
  ELSE addSymbolEntries(addSymbolEntry(table, fileName, Head(symbols)),
                        fileName, Tail(symbols))

\* addFileSymbols: registers the file, then walks exports.values() followed
\* by internal.values().  Nothing is removed and nothing is refused.
addFileSymbols(table, fileSymbols) ==
  addSymbolEntries(
    [table EXCEPT !.fileSymbols = MapSet(@, fileSymbols.fileName, fileSymbols)],
    fileSymbols.fileName,
    MapValues(fileSymbols.symbols.exports) \o MapValues(fileSymbols.symbols.internal))

Undefined == [undefined |-> TRUE]

\* symbolTable.globalSymbols.get(symbolName)
getSymbol(table, symbolName) ==
  IF MapHas(table.globalSymbols, symbolName)
    THEN MapGet(table.globalSymbols, symbolName) ELSE Undefined

\* symbolTable.dependencies.get(symbolName) || new Set()
getDependencies(table, symbolName) ==
  IF MapHas(table.dependencies, symbolName)
    THEN MapGet(table.dependencies, symbolName) ELSE << >>

\* symbolTable.reverseDependencies.get(symbolName) || new Set()
getDependents(table, symbolName) ==
  IF MapHas(table.reverseDependencies, symbolName)
    THEN MapGet(table.reverseDependencies, symbolName) ELSE << >>

RECURSIVE SelectNotIn(_, _)
SelectNotIn(deps, visited) ==
  IF Len(deps) = 0 THEN << >>
  ELSE IF SetHas(visited, Head(deps))
         THEN SelectNotIn(Tail(deps), visited)
         ELSE <<Head(deps)>> \o SelectNotIn(Tail(deps), visited)

\* One iteration of the while loop of calculateClosure on the loop state
\* [queue, visited, closure]; the loop runs while queue.length > 0.
\* closureIteration without the push of the dependencies
closureIterationIgnoresDependencies(table, st) ==
  LET current == Head(st.queue)
      rest == Tail(st.queue)
  IN IF SetHas(st.visited, current)
       THEN [st EXCEPT !.queue = rest]
       ELSE [queue |-> rest,
             visited |-> SetAdd(st.visited, current),
             closure |-> SetAdd(st.closure, current)]

closureIteration(table, st) ==
  LET current == Head(st.queue)
      rest == Tail(st.queue)
  IN IF SetHas(st.visited, current)
       THEN [st EXCEPT !.queue = rest]
       ELSE LET visited == SetAdd(st.visited, current)
            IN [queue |-> rest \o SelectNotIn(getDependencies(table, current), visited),
                visited |-> visited,
                closure |-> SetAdd(st.closure, current)]

closureStart(rootSymbols) ==
  [queue |-> rootSymbols, visited |-> << >>, closure |-> << >>]

RECURSIVE closureLoop(_, _)
closureLoop(table, st) ==
  IF Len(st.queue) > 0 THEN closureLoop(table, closureIteration(table, st))
  ELSE st.closure

\* calculateClosure with a queue that starts without the first root
calculateClosureSkipsFirstRoot(table, rootSymbols) ==
  closureLoop(table, closureStart(IF Len(rootSymbols) = 0 THEN rootSymbols ELSE Tail(rootSymbols)))

calculateClosure(table, rootSymbols) == closureLoop(table, closureStart(rootSymbols))

\* allSymbols.forEach(symbol => if (!usedSymbols.has(symbol)) unused.add(symbol))
\* findUnusedSymbols without the test against the closure
findUnusedSymbolsWithoutFilter(table, exportedSymbols) ==
  MapKeys(table.globalSymbols)

findUnusedSymbols(table, exportedSymbols) ==
  SelectNotIn(MapKeys(table.globalSymbols), calculateClosure(table, exportedSymbols))

\* One iteration of the while loop of calculateReverseClosure
reverseClosureIteration(table, st) ==
  LET current == Head(st.queue)
      rest == Tail(st.queue)
  IN IF SetHas(st.visited, current)
       THEN [st EXCEPT !.queue = rest]
       ELSE LET visited == SetAdd(st.visited, current)
            IN [queue |-> rest \o SelectNotIn(getDependents(table, current), visited),
                visited |-> visited,
                closure |-> SetAdd(st.closure, current)]

RECURSIVE reverseClosureLoop(_, _)
reverseClosureLoop(table, st) ==
  IF Len(st.queue) > 0 THEN reverseClosureLoop(table, reverseClosureIteration(table, st))
  ELSE st.closure

calculateReverseClosure(table, targetSymbols) ==
  reverseClosureLoop(table, closureStart(targetSymbols))

\* String.prototype.split(':'): the parts between the ":" atoms
RECURSIVE splitColon(_, _, _)
splitColon(str, part, parts) ==
  IF Len(str) = 0 THEN Append(parts, part)
  ELSE IF Head(str) = ":" THEN splitColon(Tail(str), << >>, Append(parts, part))
  ELSE splitColon(Tail(str), Append(part, Head(str)), parts)

\* groupSymbolsByFile with result.set(fileName, [localName]) for every id
RECURSIVE groupSymbolsByFileKeepsLast(_, _)
groupSymbolsByFileKeepsLast(symbols, grouped) ==
  IF Len(symbols) = 0 THEN grouped
  ELSE LET parts == splitColon(Head(symbols), << >>, << >>)
       IN groupSymbolsByFileKeepsLast(Tail(symbols),
            IF Len(parts) >= 2 /\ Len(parts[1]) > 0 /\ Len(parts[2]) > 0
              THEN MapSet(grouped, parts[1], <<parts[2]>>)
              ELSE grouped)

\* groupSymbolsByFile: a Map from the first part of each id to the array of
\* the second parts
RECURSIVE groupSymbolsByFile(_, _)
groupSymbolsByFile(symbols, grouped) ==
  IF Len(symbols) = 0 THEN grouped
  ELSE LET parts == splitColon(Head(symbols), << >>, << >>)
       IN groupSymbolsByFile(Tail(symbols),
            IF Len(parts) >= 2 /\ Len(parts[1]) > 0 /\ Len(parts[2]) > 0
              THEN MapSet(grouped, parts[1],
                          Append(IF MapHas(grouped, parts[1]) THEN MapGet(grouped, parts[1])
                                 ELSE << >>,
                                 parts[2]))
              ELSE grouped)

\* Math.round of the quotient n / d of two naturals, d > 0
roundDiv(n, d) == (2 * n + d) \div (2 * d)

\* calculateStatistics of the tree shaker; removalRate is kept in
\* hundredths of a percent
calculateTreeShakingStatistics(table, includedSymbols, unusedSymbols) ==
  LET totalSymbols == Len(table.globalSymbols)
  IN [totalSymbols |-> totalSymbols,
      includedSymbols |-> Len(includedSymbols),
      unusedSymbols |-> Len(unusedSymbols),
      removalRate |-> IF totalSymbols > 0
                        THEN roundDiv(Len(unusedSymbols) * 10000, totalSymbols) ELSE 0]

performTreeShaking(table, entryPoints) ==
  LET includedSymbols == calculateClosure(table, entryPoints)
      unusedSymbols == findUnusedSymbols(table, includedSymbols)
  IN [entryPoints |-> entryPoints,
      includedSymbols |-> includedSymbols,
      unusedSymbols |-> unusedSymbols,
      includedByFile |-> groupSymbolsByFile(includedSymbols, << >>),
      unusedByFile |-> groupSymbolsByFile(unusedSymbols, << >>),
      statistics |-> calculateTreeShakingStatistics(table, includedSymbols, unusedSymbols)]

---------------------------------------------------------------------------
(* The DOT report of the Reporter.                                         *)

DefaultMaxNodes == 100    \* options.maxNodes || 100

\* extractSymbolName: the text after the last ':' of the id, or the whole
\* id when it holds no ':'.
extractSymbolName(fullSymbolName) ==
  IF \A i \in 1..Len(fullSymbolName) : fullSymbolName[i] # ":" THEN fullSymbolName
  ELSE LET lastColonIndex == CHOOSE i \in 1..Len(fullSymbolName) :
                               /\ fullSymbolName[i] = ":"
                               /\ \A j \in (i + 1)..Len(fullSymbolName) : fullSymbolName[j] # ":"
       IN SubSeq(fullSymbolName, lastColonIndex + 1, Len(fullSymbolName))

\* [...included, ...unused] gathered into a new Set.
RECURSIVE SetUnion(_, _)
SetUnion(s, more) ==
  IF Len(more) = 0 THEN s ELSE SetUnion(SetAdd(s, Head(more)), Tail(more))

\* The dependencies of one emitted node that are in the displayed subset.
RECURSIVE dotEdges(_, _, _)
dotEdges(symbolName, deps, symbolsToShow) ==
  IF Len(deps) = 0 THEN << >>
  ELSE (IF SetHas(symbolsToShow, Head(deps))
          THEN <<[from |-> symbolName, to |-> Head(deps)]>> ELSE << >>)
       \o dotEdges(symbolName, Tail(deps), symbolsToShow)

\* The forEach of generateDependencyGraph over the ids left to visit: an id
\* past the cap or without a symbol in the table emits nothing.
RECURSIVE dotWalk(_, _, _, _, _, _, _)
dotWalk(table, res, symbolsToShow, maxNodes, todo, nodeCount, out) ==
  IF Len(todo) = 0 THEN out
  ELSE LET symbolName == Head(todo)
           symbolInfo == getSymbol(table, symbolName)
       IN IF nodeCount >= maxNodes \/ symbolInfo = Undefined
            THEN dotWalk(table, res, symbolsToShow, maxNodes, Tail(todo), nodeCount, out)
            ELSE dotWalk(table, res, symbolsToShow, maxNodes, Tail(todo), nodeCount + 1,
                   [nodes |-> Append(out.nodes,
                                [id |-> symbolName,
                                 label |-> extractSymbolName(symbolName),
                                 fillcolor |-> IF SetHas(res.includedSymbols, symbolName)
                                                 THEN "lightgreen" ELSE "lightcoral"]),
                    edges |-> out.edges
                                \o dotEdges(symbolName, symbolInfo.dependencies, symbolsToShow)])

\* generateDependencyGraph(result, options): the nodes and edges of the
\* digraph.  result.symbolTable is the table itself, not a copy of it.
generateDependencyGraph(table, res, options) ==
  LET includedOnly == options.includedOnly # "false"
      maxNodes == IF options.maxNodes = 0 THEN DefaultMaxNodes ELSE options.maxNodes
      symbolsToShow == IF includedOnly THEN res.includedSymbols
                       ELSE SetUnion(res.includedSymbols, res.unusedSymbols)
  IN dotWalk(table, res, symbolsToShow, maxNodes, symbolsToShow, 0,
             [nodes |-> << >>, edges |-> << >>])

\* generateJSONReport: the fileAnalysis entry of one file; removalRate is
\* kept in tenths of a percent
fileAnalysisOf(table, res, fileName) ==
  LET fileSymbols == MapGet(table.fileSymbols, fileName)
      totalInFile == Len(fileSymbols.symbols.exports) + Len(fileSymbols.symbols.internal)
      includedInFile == IF MapHas(res.includedByFile, fileName)
                          THEN Len(MapGet(res.includedByFile, fileName)) ELSE 0
      unusedInFile == IF MapHas(res.unusedByFile, fileName)
                        THEN Len(MapGet(res.unusedByFile, fileName)) ELSE 0
  IN [totalSymbols |-> totalInFile,
      includedSymbols |-> includedInFile,
      unusedSymbols |-> unusedInFile,
      removalRate |-> IF totalInFile > 0 THEN roundDiv(unusedInFile * 1000, totalInFile) ELSE 0]

\* generateJSONReport(result) run at time now: the object given to
\* JSON.stringify, its keys and arrays in their order
generateJSONReport(table, res, now) ==
  LET files == MapKeys(table.fileSymbols)
  IN [timestamp |-> now,
      entryPoints |-> res.entryPoints,
      statistics |-> res.statistics,
      includedSymbols |-> res.includedSymbols,
      unusedSymbols |-> res.unusedSymbols,
      fileAnalysis |-> [i \in 1..Len(files) |->
                          [k |-> files[i], v |-> fileAnalysisOf(table, res, files[i])]]]

\* The atoms of the ids in the order of their first UTF-16 code units; no
\* atom of the inputs is a prefix of another, so strings compare as the
\* sequences of their atoms do.
AtomsInOrder == <<".ts", ":", "a", "b", "m", "x", "y", "z">>
atomRank(atom) == CHOOSE i \in 1..Len(AtomsInOrder) : AtomsInOrder[i] = atom

\* s < t in string order
RECURSIVE stringLess(_, _)
stringLess(str, other) ==
  IF Len(other) = 0 THEN FALSE
  ELSE IF Len(str) = 0 THEN TRUE
  ELSE IF Head(str) = Head(other) THEN stringLess(Tail(str), Tail(other))
  ELSE atomRank(Head(str)) < atomRank(Head(other))

\* Array.prototype.sort, which is stable: by the ids themselves (no
\* comparator), or by extractSymbolName(a).localeCompare(extractSymbolName(b))
sortKey(symbolName, byShortName) ==
  IF byShortName THEN extractSymbolName(symbolName) ELSE symbolName
RECURSIVE insertSorted(_, _, _)
insertSorted(sorted, symbolName, byShortName) ==
  IF Len(sorted) = 0 THEN <<symbolName>>
  ELSE IF stringLess(sortKey(symbolName, byShortName), sortKey(Head(sorted), byShortName))
    THEN <<symbolName>> \o sorted
    ELSE <<Head(sorted)>> \o insertSorted(Tail(sorted), symbolName, byShortName)
RECURSIVE sortSymbols(_, _)
sortSymbols(symbols, byShortName) ==
  IF Len(symbols) = 0 THEN << >>
  ELSE insertSorted(sortSymbols(SubSeq(symbols, 1, Len(symbols) - 1), byShortName),
                    symbols[Len(symbols)], byShortName)

\* formatSymbolLocation
formatSymbolLocation(symbolInfo) ==
  IF symbolInfo = Undefined \/ "sourceLocation" \notin DOMAIN symbolInfo THEN << >>
  ELSE <<symbolInfo.fileName, symbolInfo.sourceLocation.line>>

\* generateAdjacencyListReport: processSymbol(symbolName, indent) on the
\* state lines, processedSymbols; indent counts the two-space steps
RECURSIVE processSymbol(_, _, _, _)
RECURSIVE processSymbolList(_, _, _, _)
processSymbol(table, symbolName, indent, st) ==
  LET symbolInfo == getSymbol(table, symbolName)
  IN IF symbolInfo = Undefined THEN st
     ELSE LET line == [indent |-> indent, text |-> extractSymbolName(symbolName),
                       location |-> formatSymbolLocation(symbolInfo)]
              shown == [st EXCEPT !.lines = Append(@, line)]
          IN IF SetHas(st.processedSymbols, symbolName) THEN shown
             ELSE LET entered == [shown EXCEPT !.processedSymbols = SetAdd(@, symbolName)]
                      dependencies == sortSymbols(symbolInfo.dependencies, FALSE)
                      expanded ==
                        IF Len(dependencies) > 0
                          THEN processSymbolList(table, dependencies, indent + 1, entered)
                          ELSE [entered EXCEPT !.lines =
                                  Append(@, [indent |-> indent + 1, text |-> <<"(no dependencies)">>,
                                             location |-> << >>])]
                  IN IF indent = 0
                       THEN [expanded EXCEPT !.lines =
                               Append(@, [indent |-> 0, text |-> << >>, location |-> << >>])]
                       ELSE expanded
processSymbolList(table, symbols, indent, st) ==
  IF Len(symbols) = 0 THEN st
  ELSE processSymbolList(table, Tail(symbols), indent, processSymbol(table, Head(symbols), indent, st))

generateAdjacencyListReport(table, res) ==
  LET allSymbols == SetUnion(SetUnion(<< >>, res.includedSymbols), res.unusedSymbols)
  IN processSymbolList(table, sortSymbols(allSymbols, TRUE), 0,
                    [lines |-> << >>, processedSymbols |-> << >>]).lines

\* Set.prototype.delete
SetDelete(s, x) ==
  LET keep(y) == y # x IN SelectSeq(s, keep)

\* Array.prototype.indexOf, from 1; 0 when x is not in the array
indexOf(arr, x) ==
  IF \E i \in 1..Len(arr) : arr[i] = x
    THEN CHOOSE i \in 1..Len(arr) : arr[i] = x /\ \A j \in 1..(i - 1) : arr[j] # x
    ELSE 0

RECURSIVE dfs(_, _, _, _)
RECURSIVE dfsEach(_, _, _, _)

\* dfs that pushes the whole path, not the part from the first occurrence
dfsPushesWholePath(table, symbol, path, st) ==
  IF SetHas(st.recursionStack, symbol)
    THEN IF indexOf(path, symbol) # 0
           THEN [st EXCEPT !.cycles = Append(@, Append(path, symbol))]
           ELSE st
  ELSE IF SetHas(st.visited, symbol) THEN st
  ELSE LET entered == [st EXCEPT !.visited = SetAdd(@, symbol),
                                 !.recursionStack = SetAdd(@, symbol)]
           after == dfsEach(table, getDependencies(table, symbol), Append(path, symbol), entered)
       IN [after EXCEPT !.recursionStack = SetDelete(@, symbol)]

\* dfs that tests visited before recursionStack, so that no cycle is pushed
dfsChecksVisitedFirst(table, symbol, path, st) ==
  IF SetHas(st.recursionStack, symbol) \/ SetHas(st.visited, symbol) THEN st
  ELSE LET entered == [st EXCEPT !.visited = SetAdd(@, symbol),
                                 !.recursionStack = SetAdd(@, symbol)]
           after == dfsEach(table, getDependencies(table, symbol), Append(path, symbol), entered)
       IN [after EXCEPT !.recursionStack = SetDelete(@, symbol)]

\* findCircularDependencies: dfs(symbol, path) on the state cycles,
\* visited, recursionStack
dfs(table, symbol, path, st) ==
  IF SetHas(st.recursionStack, symbol)
    THEN LET cycleStart == indexOf(path, symbol)
         IN IF cycleStart # 0
              THEN [st EXCEPT !.cycles =
                      Append(@, Append(SubSeq(path, cycleStart, Len(path)), symbol))]
              ELSE st
  ELSE IF SetHas(st.visited, symbol) THEN st
  ELSE LET entered == [st EXCEPT !.visited = SetAdd(@, symbol),
                                 !.recursionStack = SetAdd(@, symbol)]
           after == dfsEach(table, getDependencies(table, symbol), Append(path, symbol), entered)
       IN [after EXCEPT !.recursionStack = SetDelete(@, symbol)]

\* dependencies.forEach(dep => dfs(dep, [...path, symbol]))
dfsEach(table, symbols, path, st) ==
  IF Len(symbols) = 0 THEN st
  ELSE dfsEach(table, Tail(symbols), path, dfs(table, Head(symbols), path, st))

\* allSymbols.forEach(symbol => if (!visited.has(symbol)) dfs(symbol, []))
RECURSIVE dfsRoots(_, _, _)
dfsRoots(table, symbols, st) ==
  IF Len(symbols) = 0 THEN st
  ELSE dfsRoots(table, Tail(symbols),
                IF SetHas(st.visited, Head(symbols)) THEN st
                ELSE dfs(table, Head(symbols), << >>, st))

findCircularDependencies(table) ==
  dfsRoots(table, MapKeys(table.globalSymbols),
           [cycles |-> << >>, visited |-> << >>, recursionStack |-> << >>]).cycles

\* collectDependents of calculateImpactAnalysis on the set allDependents
RECURSIVE collectDependents(_, _, _)
RECURSIVE collectDependentsEach(_, _, _)
collectDependents(table, symbol, allDependents) ==
  collectDependentsEach(table, getDependents(table, symbol), SetAdd(allDependents, symbol))

collectDependentsEach(table, dependents, allDependents) ==
  IF Len(dependents) = 0 THEN allDependents
  ELSE collectDependentsEach(table, Tail(dependents),
         IF SetHas(allDependents, Head(dependents)) THEN allDependents
         ELSE collectDependents(table, Head(dependents), allDependents))

\* calculateImpactAnalysis that stops at the direct dependents
calculateImpactAnalysisOneLevel(symbolName, table) ==
  LET directDependents == getDependents(table, symbolName)
      allDependents == SetUnion(<<symbolName>>, directDependents)
  IN [targetSymbol |-> symbolName,
      directDependents |-> directDependents,
      allDependents |-> allDependents,
      impactCount |-> Len(allDependents)]

calculateImpactAnalysis(symbolName, table) ==
  LET directDependents == getDependents(table, symbolName)
      allDependents == collectDependents(table, symbolName, << >>)
  IN [targetSymbol |-> symbolName,
      directDependents |-> directDependents,
      allDependents |-> allDependents,
      impactCount |-> Len(allDependents)]

\* findLargestSymbols: the limit used when none is given
DefaultLimit == 10

\* Array.prototype.sort((a, b) => b.dependencyCount - a.dependencyCount),
\* which is stable: an entry goes after the entries that count as many
RECURSIVE insertBySize(_, _)
insertBySize(sorted, entry) ==
  IF Len(sorted) = 0 THEN <<entry>>
  ELSE IF entry.dependencyCount > Head(sorted).dependencyCount
    THEN <<entry>> \o sorted
    ELSE <<Head(sorted)>> \o insertBySize(Tail(sorted), entry)
RECURSIVE sortBySize(_)
sortBySize(symbolSizes) ==
  IF Len(symbolSizes) = 0 THEN << >>
  ELSE insertBySize(sortBySize(SubSeq(symbolSizes, 1, Len(symbolSizes) - 1)),
                    symbolSizes[Len(symbolSizes)])

findLargestSymbols(table, limit) ==
  LET keys == MapKeys(table.globalSymbols)
      symbolSizes == [n \in 1..Len(keys) |->
                        [symbol |-> keys[n],
                         dependencyCount |-> IF MapHas(table.dependencies, keys[n])
                                               THEN Len(MapGet(table.dependencies, keys[n]))
                                               ELSE 0]]
      sorted == sortBySize(symbolSizes)
  IN SubSeq(sorted, 1, IF limit < Len(sorted) THEN limit ELSE Len(sorted))

---------------------------------------------------------------------------
(* Inputs of the table's callers.                                          *)

FileA == <<"a", ".ts">>
FileB == <<"b", ".ts">>
IdAx == fullNameOf(FileA, "x")
IdAy == fullNameOf(FileA, "y")
IdBx == fullNameOf(FileB, "x")
MissingId == <<"m", ".ts", ":", "z">>      \* an id no inserted file owns
AllIds == {IdAx, IdAy, IdBx, MissingId}

\* createSymbolInfo: dependents starts empty and the table never fills it.
SymbolInfo(name, isExported, deps) ==
  [name |-> name, isExported |-> isExported, dependencies |-> deps, dependents |-> << >>]

Exports(deps) == <<[k |-> "x", v |-> SymbolInfo("x", TRUE, deps)]>>
Internal(deps) == <<[k |-> "y", v |-> SymbolInfo("y", FALSE, deps)]>>

FileSymbolsOf(fileName, exports, internal) ==
  [fileName |-> fileName,
   symbols |-> [exports |-> exports, internal |-> internal, imports |-> << >>]]

\* a.ts exports x and may keep y internal; b.ts exports x.
FileSymbolsInputs ==
  {FileSymbolsOf(FileA, Exports(dx), i) :
     dx \in {<< >>, <<IdAy>>, <<IdBx>>, <<MissingId>>, <<IdAy, IdBx>>},
     i \in {<< >>} \cup {Internal(dy) : dy \in {<< >>, <<IdAx>>}}}
  \cup
  {FileSymbolsOf(FileB, Exports(dx), << >>) : dx \in {<< >>, <<IdAx>>, <<MissingId>>}}

EntryLists == {<< >>, <<IdAx>>, <<IdBx>>, <<MissingId>>, <<IdAx, MissingId>>, <<IdAy, IdAx>>}

\* {} (the defaults), {includedOnly: false}, {maxNodes: 1}
GraphOptionsInputs ==
  {[includedOnly |-> "undefined", maxNodes |-> 0],
   [includedOnly |-> "false", maxNodes |-> 0],
   [includedOnly |-> "undefined", maxNodes |-> 1]}

NoResult == [none |-> TRUE]
NoReport == [nodes |-> << >>, edges |-> << >>]
NoCall == [op |-> "none", outcome |-> "none"]
NoClosures == [none |-> TRUE]

\* the CLI processes, and the pids of the servers they can spawn
CliIds == {"c1", "c2"}
Pids == 1..MaxCommands
NoFile == [none |-> TRUE]
IdleCli == [pc |-> "idle", cont |-> << >>, pid |-> 0, child |-> 0, port |-> 0]

ServerIdle ==
  /\ servers = [p \in Pids |-> "none"]
  /\ statusFile = NoFile
  /\ hasCurrent = TRUE
  /\ cli = [c \in CliIds |-> IdleCli]
  /\ commands = 0

TaskIds == 1..MaxTasks
NoTask == [op |-> "none", key |-> "none", store |-> "waiting", index |-> "waiting"]

SemanticIdle ==
  /\ entryStore = {}
  /\ semanticIndex = {}
  /\ tasks = [t \in TaskIds |-> NoTask]

SqliteFiles == {<<"a", ".ts">>, <<"b", ".ts">>}
NotAdded == [none |-> TRUE]

SqliteIdle ==
  /\ symbolRows = << >>
  /\ dependencyRows = << >>
  /\ lastAdded = [f \in SqliteFiles |-> NotAdded]

ServicesIdle == ServerIdle /\ SemanticIdle /\ SqliteIdle

CallsIdle ==
  /\ result = NoResult
  /\ report = NoReport
  /\ lastCall = NoCall
  /\ calls = 0

ClosureIdle ==
  /\ roots = << >>
  /\ loop = closureStart(<< >>)
  /\ iterations = 0
  /\ otherRoots = << >>
  /\ closures = NoClosures

NoAnalysis == [none |-> TRUE]

AnalyzeIdle ==
  /\ program = << >>
  /\ rootFiles = << >>
  /\ analysisOptions = [includeNodeModules |-> FALSE, includeSystemSymbols |-> FALSE]
  /\ compilerDiagnostics = << >>
  /\ analysis = NoAnalysis

---------------------------------------------------------------------------
(* The table under its callers: any sequence of addFileSymbols,            *)
(* performTreeShaking and generateDependencyGraph calls.                   *)

Init ==
  /\ symbolTable = createProjectSymbolTable
  /\ ServicesIdle
  /\ CallsIdle
  /\ ClosureIdle
  /\ AnalyzeIdle

AddFileSymbols(fs) ==
  /\ calls < MaxCalls
  /\ symbolTable' = addFileSymbols(symbolTable, fs)
  /\ lastCall' = [op |-> "addFileSymbols", fileName |-> fs.fileName, outcome |-> "returned"]
  /\ calls' = calls + 1
  /\ UNCHANGED <<result, report, closureVars, analyzeVars, serviceVars>>

PerformTreeShaking(entryPoints) ==
  /\ calls < MaxCalls
  /\ result' = performTreeShaking(symbolTable, entryPoints)
  /\ lastCall' = [op |-> "performTreeShaking", outcome |-> "returned"]
  /\ calls' = calls + 1
  /\ UNCHANGED <<symbolTable, report, closureVars, analyzeVars, serviceVars>>

GenerateDependencyGraph(options) ==
  /\ calls < MaxCalls
  /\ result # NoResult
  /\ report' = generateDependencyGraph(symbolTable, result, options)
  /\ lastCall' = [op |-> "generateDependencyGraph", outcome |-> "returned"]
  /\ calls' = calls + 1
  /\ UNCHANGED <<symbolTable, result, closureVars, analyzeVars, serviceVars>>

\* the times at which a report is generated
Times == {1, 2}

GenerateJSONReport(now) ==
  /\ calls < MaxCalls
  /\ result # NoResult
  /\ report' = generateJSONReport(symbolTable, result, now)
  /\ lastCall' = [op |-> "generateJSONReport", outcome |-> "returned"]
  /\ calls' = calls + 1
  /\ UNCHANGED <<symbolTable, result, closureVars, analyzeVars, serviceVars>>

GenerateAdjacencyListReport ==
  /\ calls < MaxCalls
  /\ result # NoResult
  /\ report' = [lines |-> generateAdjacencyListReport(symbolTable, result)]
  /\ lastCall' = [op |-> "generateAdjacencyListReport", outcome |-> "returned"]
  /\ calls' = calls + 1
  /\ UNCHANGED <<symbolTable, result, closureVars, analyzeVars, serviceVars>>

CalculateImpactAnalysis(symbolName) ==
  /\ calls < MaxCalls
  /\ report' = calculateImpactAnalysis(symbolName, symbolTable)
  /\ lastCall' = [op |-> "calculateImpactAnalysis", outcome |-> "returned",
                  symbolName |-> symbolName]
  /\ calls' = calls + 1
  /\ UNCHANGED <<symbolTable, result, closureVars, analyzeVars, serviceVars>>

\* the limits given to findLargestSymbols; 0 stands for no limit given
LimitInputs == {0, 1, 2}

FindLargestSymbols(limit) ==
  /\ calls < MaxCalls
  /\ report' = [largest |-> findLargestSymbols(symbolTable,
                                               IF limit = 0 THEN DefaultLimit ELSE limit)]
  /\ lastCall' = [op |-> "findLargestSymbols", outcome |-> "returned",
                  limit |-> IF limit = 0 THEN DefaultLimit ELSE limit]
  /\ calls' = calls + 1
  /\ UNCHANGED <<symbolTable, result, closureVars, analyzeVars, serviceVars>>

FindCircularDependencies ==
  /\ calls < MaxCalls
  /\ report' = [cycles |-> findCircularDependencies(symbolTable)]
  /\ lastCall' = [op |-> "findCircularDependencies", outcome |-> "returned"]
  /\ calls' = calls + 1
  /\ UNCHANGED <<symbolTable, result, closureVars, analyzeVars, serviceVars>>

Next ==
  \/ \E fs \in FileSymbolsInputs : AddFileSymbols(fs)
  \/ \E entryPoints \in EntryLists : PerformTreeShaking(entryPoints)
  \/ \E options \in GraphOptionsInputs : GenerateDependencyGraph(options)
  \/ FindCircularDependencies
  \/ \E now \in Times : GenerateJSONReport(now)
  \/ GenerateAdjacencyListReport
  \/ \E symbolName \in AllIds : CalculateImpactAnalysis(symbolName)
  \/ \E limit \in LimitInputs : FindLargestSymbols(limit)

Spec == Init /\ [][Next]_vars

---------------------------------------------------------------------------
(* calculateClosure on its own: the inputs are a table built by            *)
(* addFileSymbols and two lists of root symbols; one action is one         *)
(* iteration of the while loop, the other applies the whole function.      *)

RECURSIVE TablesAfter(_)
TablesAfter(n) ==
  IF n = 0 THEN {createProjectSymbolTable}
  ELSE LET before == TablesAfter(n - 1)
       IN before \cup {addFileSymbols(t, fs) : t \in before, fs \in FileSymbolsInputs}

RootLists == EntryLists

InitClosure ==
  /\ symbolTable \in TablesAfter(MaxInputFiles)
  /\ ServicesIdle
  /\ CallsIdle
  /\ AnalyzeIdle
  /\ roots \in RootLists
  /\ otherRoots \in {<< >>, <<IdBx>>, <<MissingId, IdAy>>}
  /\ loop = closureStart(roots)
  /\ iterations = 0
  /\ closures = NoClosures

ClosureIteration ==
  /\ Len(loop.queue) > 0
  /\ loop' = closureIteration(symbolTable, loop)
  /\ iterations' = iterations + 1
  /\ UNCHANGED <<symbolTable, callVars, analyzeVars, serviceVars, roots, otherRoots, closures>>

ApplyClosure ==
  /\ closures = NoClosures
  /\ closures' =
       [ofRoots |-> calculateClosure(symbolTable, roots),
        ofOther |-> calculateClosure(symbolTable, otherRoots),
        ofUnion |-> calculateClosure(symbolTable, roots \o otherRoots),
        ofClosure |-> calculateClosure(symbolTable, calculateClosure(symbolTable, roots))]
  /\ UNCHANGED <<symbolTable, callVars, analyzeVars, serviceVars, roots, otherRoots, loop, iterations>>

NextClosure == ClosureIteration \/ ApplyClosure

SpecClosure == InitClosure /\ [][NextClosure]_vars

---------------------------------------------------------------------------
(* The extractor and the dependency resolver.  A path is a sequence of     *)
(* atoms: directory atoms, then the stem and the extension of the file,    *)
(* so "/p/lib/a.ts" is <<"/p/", "lib/", "a", ".ts">> and the module        *)
(* specifier "./b" is <<"./", "b">>.  A symbol id is a path followed by    *)
(* ":" and the symbol's name.                                              *)

DirAtoms == {"/p/", "src/", "lib/", "./", "../", "node_modules/", "node_modules/typescript/lib/"}
DotAtoms == {"./", "../"}
AbsoluteAtoms == {"/p/"}
NodeModulesAtoms == {"node_modules/", "node_modules/typescript/lib/"}
SystemAtoms == {"node_modules/typescript/lib/"}
Cwd == <<"/p/">>

\* index of the last directory atom of a path, 0 when it has none
LastDir(p) ==
  LET dirs == {i \in 1..Len(p) : p[i] \in DirAtoms}
  IN IF dirs = {} THEN 0 ELSE CHOOSE i \in dirs : \A j \in dirs : j <= i

\* path.basename
basename(p) == SubSeq(p, LastDir(p) + 1, Len(p))

\* path.dirname
dirname(p) == IF LastDir(p) = 0 THEN <<"./">> ELSE SubSeq(p, 1, LastDir(p))

\* path.resolve(fromDir, toPath): the segments of both are applied, from
\* the working directory when fromDir is relative
RECURSIVE applySegments(_, _)
applySegments(acc, segs) ==
  IF Len(segs) = 0 THEN acc
  ELSE LET seg == Head(segs)
       IN IF seg = "./" THEN applySegments(acc, Tail(segs))
          ELSE IF seg = "../"
            THEN applySegments(IF Len(acc) > 1 THEN SubSeq(acc, 1, Len(acc) - 1) ELSE acc,
                               Tail(segs))
            ELSE applySegments(Append(acc, seg), Tail(segs))
pathResolve(fromDir, toPath) ==
  IF Len(fromDir) > 0 /\ fromDir[1] \in AbsoluteAtoms
    THEN applySegments(<<fromDir[1]>>, Tail(fromDir) \o toPath)
    ELSE applySegments(Cwd, fromDir \o toPath)

resolveRelativePath(fromPath, toPath) ==
  IF Len(toPath) > 0 /\ toPath[1] \in DotAtoms
    THEN basename(pathResolve(dirname(fromPath), toPath))
    ELSE toPath

FunctionInitializers == {"ArrowFunction", "FunctionExpression"}
DeclarationKinds ==
  {"FunctionDeclaration", "ClassDeclaration", "InterfaceDeclaration",
   "TypeAliasDeclaration", "EnumDeclaration", "ModuleDeclaration"}

createSymbolInfo(name, declaration, sourceFile) ==
  [name |-> name,
   declaration |-> declaration,
   fileName |-> basename(sourceFile.fileName),
   dependencies |-> << >>,
   dependents |-> << >>]

addSymbol(symbolInfo, isExported, symbols) ==
  IF isExported
    THEN [symbols EXCEPT !.exports = MapSet(@, symbolInfo.name, symbolInfo)]
    ELSE [symbols EXCEPT !.internal = MapSet(@, symbolInfo.name, symbolInfo)]

handleVariableStatement(stmt, symbols, sourceFile) ==
  LET decl == stmt.declaration
      declaration == IF decl.initializerKind \in FunctionInitializers
                       THEN decl.initializer ELSE decl
  IN IF decl.name # ""
       THEN addSymbol(createSymbolInfo(decl.name, declaration, sourceFile), stmt.exported, symbols)
       ELSE symbols

handleDeclaration(stmt, symbols, sourceFile) ==
  IF stmt.declaration.name # ""
    THEN addSymbol(createSymbolInfo(stmt.declaration.name, stmt.declaration, sourceFile),
                   stmt.exported, symbols)
    ELSE symbols

RECURSIVE addNamedImports(_, _, _)
addNamedImports(imports, elements, resolvedPath) ==
  IF Len(elements) = 0 THEN imports
  ELSE LET element == Head(elements)
           importInfo == [name |-> element.name,
                          fromModule |-> resolvedPath,
                          isDefault |-> FALSE,
                          originalName |-> IF element.propertyName # ""
                                             THEN element.propertyName ELSE element.name]
       IN addNamedImports(MapSet(imports, importInfo.name, importInfo), Tail(elements), resolvedPath)

handleImportDeclaration(importDecl, symbols, sourceFile) ==
  LET resolvedPath == resolveRelativePath(sourceFile.fileName, importDecl.moduleSpecifier)
      withDefault ==
        IF importDecl.defaultName # ""
          THEN MapSet(symbols.imports, importDecl.defaultName,
                      [name |-> importDecl.defaultName, fromModule |-> resolvedPath,
                       isDefault |-> TRUE, originalName |-> ""])
          ELSE symbols.imports
      withNamed == addNamedImports(withDefault, importDecl.elements, resolvedPath)
      withNamespace ==
        IF importDecl.namespace # ""
          THEN MapSet(withNamed, importDecl.namespace,
                      [name |-> importDecl.namespace, fromModule |-> resolvedPath,
                       isDefault |-> FALSE, originalName |-> "*"])
          ELSE withNamed
  IN [symbols EXCEPT !.imports = withNamespace]

processStatement(statement, symbols, sourceFile) ==
  IF statement.kind = "VariableStatement" THEN handleVariableStatement(statement, symbols, sourceFile)
  ELSE IF statement.kind \in DeclarationKinds THEN handleDeclaration(statement, symbols, sourceFile)
  ELSE IF statement.kind = "ImportDeclaration" THEN handleImportDeclaration(statement, symbols, sourceFile)
  ELSE symbols

RECURSIVE processStatements(_, _, _)
processStatements(statements, symbols, sourceFile) ==
  IF Len(statements) = 0 THEN symbols
  ELSE processStatements(Tail(statements),
                         processStatement(Head(statements), symbols, sourceFile), sourceFile)

\* collectLocals: the names of the function and variable declarations in
\* the subtree of a node, the node itself included
localFunctionsOf(node) ==
  node.functionNames
    \cup (IF node.kind = "FunctionDeclaration" /\ node.name # "" THEN {node.name} ELSE {})
    \cup (IF node.kind = "VariableDeclaration" /\ node.initializerKind \in FunctionInitializers
                                               /\ node.name # ""
            THEN {node.name} ELSE {})
localVariablesOf(node) ==
  node.variableNames
    \cup (IF node.kind = "VariableDeclaration" /\ node.name # "" THEN {node.name} ELSE {})

pathIncludes(p, atoms) == \E i \in 1..Len(p) : p[i] \in atoms

\* the body of collectDependencies for one identifier: the ids it adds
dependencyOf(identifier, node, symbols, opts) ==
  LET symbolName == identifier.symbolName
      declaration == identifier.declaration
      importInfo == IF MapHas(symbols.imports, symbolName)
                      THEN MapGet(symbols.imports, symbolName) ELSE Undefined
      symbolId ==
        IF importInfo # Undefined
          THEN importInfo.fromModule
                 \o <<":", IF importInfo.originalName # "" THEN importInfo.originalName
                                                          ELSE symbolName>>
          ELSE basename(declaration.fileName) \o <<":", symbolName>>
      isSystemSymbol == pathIncludes(declaration.fileName, SystemAtoms)
      isNodeModuleSymbol == pathIncludes(declaration.fileName, NodeModulesAtoms)
                              /\ ~pathIncludes(declaration.fileName, SystemAtoms)
  IN IF identifier.propertyName THEN << >>
     ELSE IF ~identifier.symbol \/ declaration.kind = "none" THEN << >>
     ELSE IF symbolName \in localFunctionsOf(node) \/ symbolName \in localVariablesOf(node) THEN << >>
     ELSE IF isSystemSymbol /\ ~opts.includeSystemSymbols THEN << >>
     ELSE IF isNodeModuleSymbol /\ ~opts.includeNodeModules THEN << >>
     ELSE IF declaration.kind = "Parameter" THEN << >>
     ELSE IF identifier.enclosedByDeclaration \/ identifier.namesVariable THEN << >>
     ELSE IF declaration.kind \in {"PropertySignature", "PropertyDeclaration"} THEN << >>
     ELSE IF \/ identifier.parentIsTypeReference
             \/ declaration.kind \in {"TypeAliasDeclaration", "InterfaceDeclaration", "ClassDeclaration"}
       THEN << >>
     ELSE <<symbolId>>

RECURSIVE collectDependencies(_, _, _, _, _)
collectDependencies(identifiers, node, symbols, opts, dependencies) ==
  IF Len(identifiers) = 0 THEN dependencies
  ELSE LET found == dependencyOf(Head(identifiers), node, symbols, opts)
       IN collectDependencies(Tail(identifiers), node, symbols, opts,
                              IF Len(found) = 0 THEN dependencies
                              ELSE SetAdd(dependencies, found[1]))

findSymbolDependencies(node, symbols, opts) ==
  collectDependencies(node.identifiers, node, symbols, opts, << >>)

calculateDependencies(symbols, opts) ==
  LET processSymbols(symbolMap) ==
        [i \in 1..Len(symbolMap) |->
           [k |-> symbolMap[i].k,
            v |-> [symbolMap[i].v EXCEPT
                     !.dependencies = findSymbolDependencies(symbolMap[i].v.declaration, symbols, opts)]]]
  IN [symbols EXCEPT !.exports = processSymbols(symbols.exports),
                     !.internal = processSymbols(symbols.internal)]

extractSymbolsFromFile(sourceFile, opts) ==
  calculateDependencies(
    processStatements(sourceFile.statements,
                      [exports |-> << >>, internal |-> << >>, imports |-> << >>],
                      sourceFile),
    opts)

analyzeSourceFile(sourceFile, opts) ==
  [fileName |-> sourceFile.fileName,
   symbols |-> extractSymbolsFromFile(sourceFile, opts)]

getSourceFiles(prog, rootNames) ==
  LET kept(sf) == ~sf.isDeclarationFile /\ SetHas(rootNames, sf.fileName)
  IN SelectSeq(prog, kept)

\* sourceFiles.forEach: an exception of analyzeSourceFile, thrown when the
\* type checker throws on the file, ends the loop and leaves the table as
\* the files before have made it
RECURSIVE analyzeFiles(_, _, _)
analyzeFiles(table, sourceFiles, opts) ==
  IF Len(sourceFiles) = 0 THEN [symbolTable |-> table, threw |-> FALSE]
  ELSE IF Head(sourceFiles).checkerThrows THEN [symbolTable |-> table, threw |-> TRUE]
  ELSE analyzeFiles(addFileSymbols(table, analyzeSourceFile(Head(sourceFiles), opts)),
                    Tail(sourceFiles), opts)

getDiagnosticsOfEveryCategory(diagnostics) == diagnostics

getDiagnostics(diagnostics) ==
  LET isError(d) == d.category = "Error" IN SelectSeq(diagnostics, isError)

RECURSIVE Sum(_)
Sum(sizes) == IF Len(sizes) = 0 THEN 0 ELSE Head(sizes) + Sum(Tail(sizes))

calculateStatistics(table, rootNames) ==
  LET files == MapValues(table.fileSymbols)
      exportedSymbols == Sum([i \in 1..Len(files) |-> Len(files[i].symbols.exports)])
      internalSymbols == Sum([i \in 1..Len(files) |-> Len(files[i].symbols.internal)])
      importCount == Sum([i \in 1..Len(files) |-> Len(files[i].symbols.imports)])
      dependencyCount == Sum([i \in 1..Len(table.dependencies) |-> Len(table.dependencies[i].v)])
  IN [totalFiles |-> Len(rootNames),
      totalSymbols |-> exportedSymbols + internalSymbols,
      exportedSymbols |-> exportedSymbols,
      internalSymbols |-> internalSymbols,
      importCount |-> importCount,
      dependencyCount |-> dependencyCount]

analyzeProject(table, prog, rootNames, opts, diagnostics) ==
  LET after == analyzeFiles(table, getSourceFiles(prog, rootNames), opts)
  IN IF after.threw
       THEN [symbolTable |-> after.symbolTable, outcome |-> "threw"]
       ELSE [symbolTable |-> after.symbolTable,
             outcome |-> "returned",
             rootFiles |-> rootNames,
             diagnostics |-> getDiagnostics(diagnostics),
             statistics |-> calculateStatistics(after.symbolTable, rootNames)]

---------------------------------------------------------------------------
(* The programs the analyzer is run on.  An identifier of a declaration    *)
(* carries what the resolver reads of it: whether it is the name of a      *)
(* property access, the symbol the type checker resolves it to, the kind   *)
(* and the file of that symbol's first declaration, whether that           *)
(* declaration encloses the identifier, and whether its parent is a type   *)
(* reference.                                                              *)

NoNode == [kind |-> "none"]

Reference(symbolName, declKind, declFile) ==
  [propertyName |-> FALSE, symbol |-> TRUE, symbolName |-> symbolName,
   declaration |-> [kind |-> declKind, fileName |-> declFile],
   enclosedByDeclaration |-> FALSE, namesVariable |-> FALSE, parentIsTypeReference |-> FALSE]
OwnName(symbolName, declKind, declFile) ==
  [Reference(symbolName, declKind, declFile) EXCEPT !.enclosedByDeclaration = TRUE]
TypeReference(symbolName, declKind, declFile) ==
  [Reference(symbolName, declKind, declFile) EXCEPT !.parentIsTypeReference = TRUE]
PropertyName(symbolName) ==
  [propertyName |-> TRUE, symbol |-> FALSE, symbolName |-> symbolName,
   declaration |-> [kind |-> "none", fileName |-> << >>],
   enclosedByDeclaration |-> FALSE, namesVariable |-> FALSE, parentIsTypeReference |-> FALSE]

Node(kind, name, identifiers) ==
  [kind |-> kind, name |-> name, initializerKind |-> "none", initializer |-> NoNode,
   functionNames |-> {}, variableNames |-> {}, identifiers |-> identifiers]
Statement(kind, exported, declaration) ==
  [kind |-> kind, exported |-> exported, declaration |-> declaration]
ImportNamed(moduleSpecifier, name, propertyName) ==
  [kind |-> "ImportDeclaration", moduleSpecifier |-> moduleSpecifier, defaultName |-> "",
   elements |-> <<[name |-> name, propertyName |-> propertyName]>>, namespace |-> ""]
SourceFile(fileName, statements) ==
  [fileName |-> fileName, isDeclarationFile |-> FALSE, checkerThrows |-> FALSE,
   statements |-> statements]
\* a source file on which the type checker throws
CheckerThrowsOn(sourceFile) == [sourceFile EXCEPT !.checkerThrows = TRUE]

LibEs5 == <<"/p/", "node_modules/typescript/lib/", "lib.es5.d", ".ts">>

\* export function x() { return y(); }
\* function y() { return 1; }
\* x();
CallsSibling(f) ==
  SourceFile(f,
    <<Statement("FunctionDeclaration", TRUE,
        Node("FunctionDeclaration", "x",
             <<OwnName("x", "FunctionDeclaration", f), Reference("y", "FunctionDeclaration", f)>>)),
      Statement("FunctionDeclaration", FALSE,
        Node("FunctionDeclaration", "y", <<OwnName("y", "FunctionDeclaration", f)>>)),
      [kind |-> "ExpressionStatement"]>>)

\* import { x as h } from './lib/a.ts';
\* export function x() { return h(); }
ImportsSameBasename(f) ==
  SourceFile(f,
    <<ImportNamed(<<"./", "lib/", "a", ".ts">>, "h", "x"),
      Statement("FunctionDeclaration", TRUE,
        Node("FunctionDeclaration", "x",
             <<OwnName("x", "FunctionDeclaration", f), Reference("h", "ImportSpecifier", f)>>))>>)

\* import { x } from './b';
\* export const y = (p) => x(p.x);
ImportsWithoutExtension(f) ==
  SourceFile(f,
    <<ImportNamed(<<"./", "b">>, "x", ""),
      Statement("VariableStatement", TRUE,
        [kind |-> "VariableDeclaration", name |-> "y", initializerKind |-> "ArrowFunction",
         initializer |->
           Node("ArrowFunction", "",
                <<OwnName("p", "Parameter", f), Reference("x", "ImportSpecifier", f),
                  Reference("p", "Parameter", f), PropertyName("x")>>),
         functionNames |-> {}, variableNames |-> {}, identifiers |-> << >>])>>)

\* export enum x { A }
\* export enum x { B = x.A }
MergedEnum(f) ==
  SourceFile(f,
    <<Statement("EnumDeclaration", TRUE,
        Node("EnumDeclaration", "x",
             <<OwnName("x", "EnumDeclaration", f), OwnName("A", "EnumMember", f)>>)),
      Statement("EnumDeclaration", TRUE,
        Node("EnumDeclaration", "x",
             <<Reference("x", "EnumDeclaration", f), OwnName("B", "EnumMember", f),
               Reference("x", "EnumDeclaration", f), PropertyName("A")>>))>>)

\* import { x } from './b.ts';
\* type T = number;
\* export function y(): T { return x(); }
ImportsWithExtension(f) ==
  SourceFile(f,
    <<ImportNamed(<<"./", "b", ".ts">>, "x", ""),
      Statement("TypeAliasDeclaration", FALSE,
        Node("TypeAliasDeclaration", "T", <<OwnName("T", "TypeAliasDeclaration", f)>>)),
      Statement("FunctionDeclaration", TRUE,
        Node("FunctionDeclaration", "y",
             <<OwnName("y", "FunctionDeclaration", f),
               TypeReference("T", "TypeAliasDeclaration", f),
               Reference("x", "ImportSpecifier", f)>>))>>)

\* export function x() { return 1; }
Leaf(f) ==
  SourceFile(f,
    <<Statement("FunctionDeclaration", TRUE,
        Node("FunctionDeclaration", "x", <<OwnName("x", "FunctionDeclaration", f)>>))>>)

\* import { y } from './a.ts';
\* export function x() { return y(); }
ImportsBack(f) ==
  SourceFile(f,
    <<ImportNamed(<<"./", "a", ".ts">>, "y", ""),
      Statement("FunctionDeclaration", TRUE,
        Node("FunctionDeclaration", "x",
             <<OwnName("x", "FunctionDeclaration", f), Reference("y", "ImportSpecifier", f)>>))>>)

\* class y {}
\* export function x() { return new y(); }
ConstructsClass(f) ==
  SourceFile(f,
    <<Statement("ClassDeclaration", FALSE,
        Node("ClassDeclaration", "y", <<OwnName("y", "ClassDeclaration", f)>>)),
      Statement("FunctionDeclaration", TRUE,
        Node("FunctionDeclaration", "x",
             <<OwnName("x", "FunctionDeclaration", f),
               Reference("y", "ClassDeclaration", f)>>))>>)

\* export function x() { return parseInt('1'); }
CallsSystem(f) ==
  SourceFile(f,
    <<Statement("FunctionDeclaration", TRUE,
        Node("FunctionDeclaration", "x",
             <<OwnName("x", "FunctionDeclaration", f),
               Reference("parseInt", "FunctionDeclaration", LibEs5)>>))>>)

\* the directory the root files are named in: none, relative, absolute
RootDirs == {<< >>, <<"src/">>, <<"/p/">>}

ProgramsIn(dir) ==
  LET a == dir \o <<"a", ".ts">>
      b == dir \o <<"b", ".ts">>
      l == dir \o <<"lib/", "a", ".ts">>
  IN {<<[fileName |-> LibEs5, isDeclarationFile |-> TRUE, checkerThrows |-> FALSE,
          statements |-> << >>],
        CallsSystem(l), sb, sa>> :
        sa \in {CallsSibling(a), ImportsSameBasename(a), ImportsWithoutExtension(a),
                MergedEnum(a), ImportsWithExtension(a), ConstructsClass(a),
                CheckerThrowsOn(CallsSibling(a))},
        sb \in {Leaf(b), ImportsBack(b), CheckerThrowsOn(Leaf(b))}}

RootFilesIn(dir) ==
  LET a == dir \o <<"a", ".ts">>
      b == dir \o <<"b", ".ts">>
      l == dir \o <<"lib/", "a", ".ts">>
  IN {<<a>>, <<a, b>>, <<a, b, l>>, <<a, b, LibEs5>>}

AnalysisOptionsInputs ==
  {[includeNodeModules |-> FALSE, includeSystemSymbols |-> FALSE],
   [includeNodeModules |-> FALSE, includeSystemSymbols |-> TRUE]}

\* the diagnostics of the program, each with its category
DiagnosticsInputs ==
  {<< >>,
   <<[category |-> "Warning", file |-> "b.ts"]>>,
   <<[category |-> "Warning", file |-> "a.ts"], [category |-> "Error", file |-> "b.ts"]>>}

\* the options of the command line: strict, and the entry points
CliOptionsInputs ==
  {[strict |-> st, entryPoints |-> e] :
     st \in BOOLEAN, e \in {<< >>, <<<<"a", ".ts", ":", "x">>>>}}

InitAnalyze ==
  /\ symbolTable = createProjectSymbolTable
  /\ ServicesIdle
  /\ CallsIdle
  /\ ClosureIdle
  /\ \E dir \in RootDirs :
       /\ program \in ProgramsIn(dir)
       /\ rootFiles \in RootFilesIn(dir)
  /\ analysisOptions \in AnalysisOptionsInputs
  /\ compilerDiagnostics \in DiagnosticsInputs
  /\ analysis = NoAnalysis

AnalyzeProject ==
  /\ analysis = NoAnalysis
  /\ LET res == analyzeProject(symbolTable, program, rootFiles, analysisOptions,
                               compilerDiagnostics)
     IN /\ symbolTable' = res.symbolTable
        /\ analysis' = IF res.outcome = "threw" THEN [outcome |-> "threw"]
                       ELSE [outcome |-> "returned",
                             rootFiles |-> res.rootFiles,
                             diagnostics |-> res.diagnostics,
                             statistics |-> res.statistics]
  /\ UNCHANGED <<callVars, closureVars, serviceVars, program, rootFiles, analysisOptions,
                 compilerDiagnostics>>

\* runAnalysis of the command line: the diagnostics are printed, strict
\* mode throws on them before any analysis, and the analysis and the tree
\* shaking run otherwise; the catch block prints the error and exits
RunAnalysis(cliOptions) ==
  /\ analysis = NoAnalysis
  /\ LET diagnostics == getDiagnostics(compilerDiagnostics)
     IN IF Len(diagnostics) > 0 /\ cliOptions.strict
          THEN /\ analysis' = [outcome |-> "failed",
                               error |-> "StrictModeCompileErrors",
                               printed |-> diagnostics]
               /\ UNCHANGED <<symbolTable, result>>
          ELSE LET after == analyzeFiles(symbolTable, getSourceFiles(program, rootFiles),
                                         analysisOptions)
               IN /\ symbolTable' = after.symbolTable
                  /\ IF after.threw
                       THEN /\ analysis' = [outcome |-> "failed", error |-> "Thrown",
                                            printed |-> diagnostics]
                            /\ UNCHANGED result
                       ELSE /\ analysis' = [outcome |-> "completed", printed |-> diagnostics]
                            /\ result' = performTreeShaking(after.symbolTable,
                                                            cliOptions.entryPoints)
  /\ UNCHANGED <<report, lastCall, calls, closureVars, serviceVars, program, rootFiles, analysisOptions,
                 compilerDiagnostics>>

NextAnalyze ==
  \/ AnalyzeProject
  \/ \E cliOptions \in CliOptionsInputs : RunAnalysis(cliOptions)

SpecAnalyze == InitAnalyze /\ [][NextAnalyze]_vars

---------------------------------------------------------------------------
(* Views of the table used by the properties.                              *)

\* The ids a FileSymbols record owns: file_key ":" name for every name of
\* its exports and internal maps.
OwnedIds(fs) ==
  {fullNameOf(fs.fileName, n) :
     n \in MapKeySet(fs.symbols.exports) \cup MapKeySet(fs.symbols.internal)}

RegisteredFiles == SetElems(MapValues(symbolTable.fileSymbols))
GlobalIds == MapKeySet(symbolTable.globalSymbols)
ForwardEdge(table, a, b) == SetHas(getDependencies(table, a), b)
ReverseEdge(table, b, a) == SetHas(getDependents(table, b), a)

\* The dependencies the registered version of a file lists on its symbol id.
ListedDeps(fs, id) ==
  UNION {SetElems(sym.dependencies) :
           sym \in {y \in SetElems(MapValues(fs.symbols.exports))
                            \cup SetElems(MapValues(fs.symbols.internal)) :
                      fullNameOf(fs.fileName, y.name) = id}}

InsertStep ==
  /\ calls' = calls + 1
  /\ lastCall'.op = "addFileSymbols"

---------------------------------------------------------------------------
(* C1: in every state reached by addFileSymbols calls, b is in             *)
(* forward_edges[a] if and only if a is in reverse_edges[b].               *)
C1_EdgeConsistency ==
  \A a, b \in AllIds : ForwardEdge(symbolTable, a, b) <=> ReverseEdge(symbolTable, b, a)

\* The ids with a forward edge list in a table, and the edges as pairs.
EdgeSources(table) == MapKeySet(table.dependencies)
Edges(table) ==
  UNION {{<<a, b>> : b \in SetElems(getDependencies(table, a))} : a \in EdgeSources(table)}

(* C2: once analyzeProject has inserted all the files, every forward edge  *)
(* of the table goes from a symbol of the global index to a symbol of the  *)
(* global index.                                                           *)
C2_NoDanglingEdges ==
  analysis # NoAnalysis =>
    \A e \in Edges(symbolTable) :
      /\ MapHas(symbolTable.globalSymbols, e[1])
      /\ MapHas(symbolTable.globalSymbols, e[2])

(* C5: the table has no edge from a symbol to itself, since the resolver   *)
(* never emits the id of the symbol it scans.                              *)
C5_NoSelfLoops ==
  analysis # NoAnalysis =>
    \A e \in Edges(symbolTable) : e[1] # e[2]

\* The file a relative module specifier of a source file names, as the
\* compiler resolves it, and the absolute name of a source file.
ImportTarget(fromFile, moduleSpecifier) ==
  LET resolved == pathResolve(dirname(fromFile), moduleSpecifier)
  IN IF resolved[Len(resolved)] = ".ts" THEN resolved ELSE Append(resolved, ".ts")
AbsoluteName(fileName) ==
  IF fileName[1] \in AbsoluteAtoms THEN fileName ELSE pathResolve(<<"./">>, fileName)

\* The named imports of the analyzed files from analyzed files: the
\* importing file, the imported file, the local and the original name.
ProjectImports ==
  LET analyzed == getSourceFiles(program, rootFiles)
  IN {imp \in [from : SetElems(analyzed), target : SetElems(analyzed),
               name : {"x", "y", "h"}, originalName : {"x", "y"}] :
        \E i \in 1..Len(imp.from.statements) :
          LET st == imp.from.statements[i]
          IN /\ st.kind = "ImportDeclaration"
             /\ st.moduleSpecifier[1] \in DotAtoms
             /\ ImportTarget(imp.from.fileName, st.moduleSpecifier) = AbsoluteName(imp.target.fileName)
             /\ \E j \in 1..Len(st.elements) :
                  /\ st.elements[j].name = imp.name
                  /\ imp.originalName = (IF st.elements[j].propertyName # ""
                                           THEN st.elements[j].propertyName
                                           ELSE st.elements[j].name)}

\* The ids the resolver has emitted in a file for an identifier it finds
\* under a local name in the file's imports.
EmittedFor(fileName, name) ==
  LET symbols == MapGet(symbolTable.fileSymbols, fileName).symbols
      importInfo == MapGet(symbols.imports, name)
      symbolId == importInfo.fromModule \o <<":", importInfo.originalName>>
  IN {d \in UNION {SetElems(v.dependencies) :
                     v \in SetElems(MapValues(symbols.exports)) \cup SetElems(MapValues(symbols.internal))} :
        d = symbolId}

(* C15: for an identifier imported through a relative module specifier     *)
(* from a project file F, the dependency id the resolver emits is the id   *)
(* under which addFileSymbols registers that symbol of F, so the edge      *)
(* points at a symbol of the table once F is inserted.                     *)
C15_ImportIdIsRegisteredId ==
  analysis # NoAnalysis =>
    \A imp \in ProjectImports :
      \A d \in EmittedFor(imp.from.fileName, imp.name) :
        /\ d = fullNameOf(imp.target.fileName, imp.originalName)
        /\ (\E i \in 1..Len(imp.target.statements) :
              /\ imp.target.statements[i].kind \in DeclarationKinds
              /\ imp.target.statements[i].declaration.name = imp.originalName)
           => MapHas(symbolTable.globalSymbols, d)

(* C16: once analyzeProject has inserted all the files, every symbol b of  *)
(* the table has dependents equal to the reverse edges of b: a is in the   *)
(* dependents of b exactly when b is in the dependencies of a.             *)
C16_DependentsArePopulated ==
  analysis # NoAnalysis =>
    \A b \in MapKeySet(symbolTable.globalSymbols) :
      /\ SetElems(getSymbol(symbolTable, b).dependents) = SetElems(getDependents(symbolTable, b))
      /\ \A a \in MapKeySet(symbolTable.globalSymbols) :
           SetHas(getSymbol(symbolTable, b).dependents, a)
             <=> SetHas(getSymbol(symbolTable, a).dependencies, b)

(* C3: when a file already in the table is inserted again, the symbols it  *)
(* owned and the edges incident to them are removed first: after the call  *)
(* no symbol and no edge is left that only the earlier version had.        *)
C3_ReinsertRefreshes ==
  [][\A f \in {FileA, FileB} :
       (InsertStep /\ lastCall'.fileName = f /\ MapHas(symbolTable.fileSymbols, f)) =>
         LET old == OwnedIds(MapGet(symbolTable.fileSymbols, f))
             new == MapGet(symbolTable'.fileSymbols, f)
         IN /\ \A s \in old \ OwnedIds(new) :
                 /\ ~MapHas(symbolTable'.globalSymbols, s)
                 /\ \A d \in AllIds : ~ForwardEdge(symbolTable', s, d)
                 /\ \A d \in AllIds : ~ReverseEdge(symbolTable', d, s)
            /\ \A s \in old \cap OwnedIds(new) : \A d \in AllIds :
                 ReverseEdge(symbolTable', d, s) => d \in ListedDeps(new, s)]_vars

(* C4: addFileSymbols fails with DuplicateSymbol whenever an id it would   *)
(* assign is already in the global index.                                  *)
C4_DuplicateSymbolFails ==
  [][(InsertStep
        /\ OwnedIds(MapGet(symbolTable'.fileSymbols, lastCall'.fileName)) \cap GlobalIds # {})
       => lastCall'.outcome = "DuplicateSymbol"]_vars

(* C6: the global index holds exactly the symbols of the exports and       *)
(* internal maps of the registered files, each under file_key ":" name.    *)
C6_GlobalIsUnionOfFiles ==
  GlobalIds = UNION {OwnedIds(fs) : fs \in RegisteredFiles}

\* The forward edges of the table as a relation, and the ids reachable from
\* a set of ids by zero or more of them.
EdgeTargets(table, a) ==
  UNION {SetElems(table.dependencies[i].v) :
           i \in {j \in 1..Len(table.dependencies) : table.dependencies[j].k = a}}
EdgeCount(table) ==
  Cardinality({<<a, b>> \in AllIds \X AllIds : b \in EdgeTargets(table, a)})
RECURSIVE ReachableFrom(_, _)
ReachableFrom(table, S) ==
  LET more == S \cup UNION {EdgeTargets(table, a) : a \in S}
  IN IF more = S THEN S ELSE ReachableFrom(table, more)

(* C7: calculateClosure returns exactly the ids reachable from some root   *)
(* by zero or more forward edges, and its loop ends, cycles or not: it     *)
(* runs at most once per root and once per forward edge.                   *)
C7_ClosureIsReachableSet ==
  /\ iterations <= Len(roots) + EdgeCount(symbolTable)
  /\ Len(loop.queue) = 0 =>
       SetElems(loop.closure) = ReachableFrom(symbolTable, SetElems(roots))

\* The loop has ended on a table with a cycle among the reached ids, and
\* has reached an id that is no root.
C7_Witness ==
  /\ Len(loop.queue) = 0
  /\ iterations > Len(roots)
  /\ \E a \in SetElems(loop.closure) :
       a \in ReachableFrom(symbolTable, EdgeTargets(symbolTable, a))
  /\ SetElems(loop.closure) # SetElems(roots)

(* C8: calculateClosure of S followed by T is the union of the closures    *)
(* of S and of T, and the closure of a closure is that closure.            *)
C8_ClosureAlgebra ==
  closures # NoClosures =>
    /\ SetElems(closures.ofUnion) = SetElems(closures.ofRoots) \cup SetElems(closures.ofOther)
    /\ SetElems(closures.ofClosure) = SetElems(closures.ofRoots)

\* Both lists have a closure larger than the list, and neither closure
\* holds the other.
C8_Witness ==
  /\ closures # NoClosures
  /\ SetElems(closures.ofRoots) # SetElems(roots)
  /\ SetElems(closures.ofOther) # SetElems(otherRoots)
  /\ ~(SetElems(closures.ofRoots) \subseteq SetElems(closures.ofOther))
  /\ ~(SetElems(closures.ofOther) \subseteq SetElems(closures.ofRoots))

\* The ids reachable from S by forward edges without leaving V.
RECURSIVE ReachableWithin(_, _, _)
ReachableWithin(table, S, V) ==
  LET more == S \cup (V \cap UNION {EdgeTargets(table, a) : a \in S})
  IN IF more = S THEN S ELSE ReachableWithin(table, more, V)

\* Some directed cycle of forward edges runs among the symbols of the table.
CycleAmongSymbols(table) ==
  LET V == MapKeySet(table.globalSymbols)
  IN \E a \in V : a \in ReachableWithin(table, V \cap EdgeTargets(table, a), V)

CyclesAreFresh == lastCall.op = "findCircularDependencies"

(* C11: every cycle findCircularDependencies returns is a sequence         *)
(* v0, ..., vk, v0 whose consecutive pairs, the closing pair included, are *)
(* forward edges of the table.                                             *)
C11_CyclesAreSound ==
  CyclesAreFresh =>
    \A n \in 1..Len(report.cycles) :
      LET cycle == report.cycles[n]
      IN /\ Len(cycle) >= 2
         /\ cycle[1] = cycle[Len(cycle)]
         /\ \A i \in 1..(Len(cycle) - 1) : ForwardEdge(symbolTable, cycle[i], cycle[i + 1])

\* A cycle was returned that the search entered from a symbol outside it.
C11_Witness ==
  /\ CyclesAreFresh
  /\ \E n \in 1..Len(report.cycles) :
       /\ Len(report.cycles[n]) >= 3
       /\ report.cycles[n][1] # MapKeys(symbolTable.globalSymbols)[1]

(* C12: when the forward edges hold a directed cycle among symbols of the  *)
(* table, findCircularDependencies returns at least one cycle; when the    *)
(* table is the two-symbol graph a -> b -> a, it returns a cycle whose     *)
(* vertex set is {a, b}.                                                   *)
C12_CyclesAreFound ==
  CyclesAreFresh =>
    /\ CycleAmongSymbols(symbolTable) => Len(report.cycles) >= 1
    /\ \A a, b \in GlobalIds :
         (a # b /\ GlobalIds = {a, b}
            /\ EdgeTargets(symbolTable, a) = {b} /\ EdgeTargets(symbolTable, b) = {a})
         => \E n \in 1..Len(report.cycles) : SetElems(report.cycles[n]) = {a, b}

\* The search has run on the two-symbol graph of two files.
C12_Witness ==
  /\ CyclesAreFresh
  /\ GlobalIds = {IdAx, IdBx}
  /\ EdgeTargets(symbolTable, IdAx) = {IdBx}
  /\ EdgeTargets(symbolTable, IdBx) = {IdAx}
  /\ Len(report.cycles) >= 1

\* Two tables hold the same graph: the same symbols and the same edges.
SameGraph(t1, t2) ==
  /\ MapKeySet(t1.globalSymbols) = MapKeySet(t2.globalSymbols)
  /\ \A a \in AllIds : EdgeTargets(t1, a) = EdgeTargets(t2, a)

(* C13: findCircularDependencies returns the same ordered list of cycles   *)
(* for every table that holds the same graph, whatever the order in which  *)
(* the files and symbols were inserted.                                    *)
C13_CyclesIgnoreInsertionOrder ==
  CyclesAreFresh =>
    \A other \in TablesAfter(MaxInputFiles) :
      SameGraph(symbolTable, other) => findCircularDependencies(other) = report.cycles

\* A step that generates the report generated last once more, from the
\* same table and the same result.
ReportGeneratedAgain ==
  /\ calls' = calls + 1
  /\ lastCall'.op \in {"generateJSONReport", "generateAdjacencyListReport"}
  /\ lastCall'.op = lastCall.op
  /\ symbolTable' = symbolTable
  /\ result' = result

(* C14: two runs of report generation over identical inputs produce the    *)
(* same JSON report and the same adjacency-list report, byte for byte.     *)
C14_ReportsAreDeterministic ==
  [][ReportGeneratedAgain => report' = report]_vars

\* The result at hand was computed from the table as it is now.
ResultIsFresh == lastCall.op = "performTreeShaking"
Included == SetElems(result.includedSymbols)
Unused == SetElems(result.unusedSymbols)

(* C9 as stated: for any entries, included and unused are disjoint and     *)
(* their union is the key set of the global index.                         *)
C9_UnusedPartition ==
  ResultIsFresh => /\ Included \cap Unused = {}
                   /\ Included \cup Unused = GlobalIds

(* C9, amended: included and unused are disjoint, unused is exactly the    *)
(* key set of the global index minus included, and their union is that key *)
(* set together with the ids of included that have no symbol; it equals    *)
(* the key set exactly when every id of included has a symbol.             *)
C9_UnusedPartitionAmended ==
  ResultIsFresh => /\ Included \cap Unused = {}
                   /\ Unused = GlobalIds \ Included
                   /\ Included \cup Unused = GlobalIds \cup (Included \ GlobalIds)
                   /\ (Included \cup Unused = GlobalIds) <=> (Included \subseteq GlobalIds)

\* A result with a missing entry in included beside a symbol of the table,
\* and a symbol left unused.
C9_Witness ==
  /\ ResultIsFresh
  /\ MissingId \in Included
  /\ Included \cap GlobalIds # {}
  /\ Unused # {}

\* The ids a DOT report marks as missing: its nodes are filled lightgreen
\* (included) or lightcoral (unused), and any other marking would flag one.
ReportedMissing(dot) ==
  {dot.nodes[i].id : i \in {j \in 1..Len(dot.nodes) :
                              dot.nodes[j].fillcolor \notin {"lightgreen", "lightcoral"}}}

(* C10: tree shaking with an entry id that has no symbol does not fail,    *)
(* keeps the id in included, and the Reporter reports the id as missing.   *)
C10_MissingEntryReported ==
  lastCall.op = "generateDependencyGraph" =>
    \A i \in 1..Len(result.entryPoints) :
      LET e == result.entryPoints[i]
      IN e \notin GlobalIds =>
           /\ lastCall.outcome = "returned"
           /\ e \in Included
           /\ e \in ReportedMissing(report)


---------------------------------------------------------------------------
(* The MCP server and the commands that start and stop it.  A CLI process  *)
(* runs one command at a time; one action is one step of a command between *)
(* two accesses to what the processes share: server-status.json, the       *)
(* __current__ symlink and the server processes.                           *)

\* the port of the server: the default of its --port option, which
\* startServer never passes
DefaultPort == 8192

\* what the commands and the servers leave alone
outsideServer == <<symbolTable, callVars, closureVars, analyzeVars, semanticVars, sqliteVars>>

Alive(p) == servers[p] \in {"spawned", "starting", "serving"}

\* isServerRunning: the pid of server-status.json answers process.kill(pid, 0),
\* or the stale file is removed
isServerRunning ==
  IF statusFile # NoFile /\ statusFile.pid \in Pids /\ Alive(statusFile.pid)
    THEN [running |-> TRUE, pid |-> statusFile.pid, statusFile |-> statusFile]
    ELSE [running |-> FALSE, pid |-> 0, statusFile |-> NoFile]

\* the return of a function to the step that follows its call
Return(proc) ==
  IF Len(proc.cont) = 0 THEN [proc EXCEPT !.pc = "idle"]
  ELSE [proc EXCEPT !.pc = Head(proc.cont), !.cont = Tail(proc.cont)]

Commands == {"start", "stop", "restart", "analysis", "use", "delete"}

\* a CLI process is given a command
Invoke(c, command) ==
  /\ cli[c].pc = "idle"
  /\ commands < MaxCommands
  /\ commands' = commands + 1
  /\ cli' = [cli EXCEPT ![c] =
       IF command = "start" THEN [IdleCli EXCEPT !.pc = "startServer"]
       ELSE IF command = "stop" THEN [IdleCli EXCEPT !.pc = "stopServer"]
       ELSE IF command = "restart"
         THEN [IdleCli EXCEPT !.pc = "stopServer", !.cont = <<"restartTimeout">>]
       ELSE IF command = "analysis" THEN [IdleCli EXCEPT !.pc = "ensureServerRunning"]
       ELSE IF command = "use" THEN [IdleCli EXCEPT !.pc = "useProcbase"]
       ELSE [IdleCli EXCEPT !.pc = "deleteProcbase"]]
  /\ UNCHANGED <<servers, statusFile, hasCurrent, outsideServer>>

\* startServer: the test of isServerRunning
StartServerCheck(c) ==
  /\ cli[c].pc = "startServer"
  /\ statusFile' = isServerRunning.statusFile
  /\ cli' = [cli EXCEPT ![c] = IF isServerRunning.running THEN Return(@)
                               ELSE [@ EXCEPT !.pc = "spawn"]]
  /\ UNCHANGED <<servers, hasCurrent, commands, outsideServer>>

\* startServer: spawn('bun', [serverScriptPath], {detached: true})
Spawn(c) ==
  /\ cli[c].pc = "spawn"
  /\ \E p \in Pids :
       /\ servers[p] = "none"
       /\ \A q \in Pids : q < p => servers[q] # "none"
       /\ servers' = [servers EXCEPT ![p] = "spawned"]
       /\ cli' = [cli EXCEPT ![c] = [@ EXCEPT !.pc = "writeStatus", !.child = p]]
  /\ UNCHANGED <<statusFile, hasCurrent, commands, outsideServer>>

\* startServer: fs.writeFileSync(statusFile, {pid: child.pid, port: 8192})
WriteStatus(c) ==
  /\ cli[c].pc = "writeStatus"
  /\ statusFile' = [pid |-> cli[c].child, port |-> DefaultPort]
  /\ cli' = [cli EXCEPT ![c] = Return(@)]
  /\ UNCHANGED <<servers, hasCurrent, commands, outsideServer>>

\* stopServer: the test of isServerRunning, with the removal of the status
\* file when no server is running
StopServerCheck(c) ==
  /\ cli[c].pc = "stopServer"
  /\ IF isServerRunning.running
       THEN /\ cli' = [cli EXCEPT ![c] = [@ EXCEPT !.pc = "kill", !.pid = isServerRunning.pid]]
            /\ UNCHANGED statusFile
       ELSE /\ cli' = [cli EXCEPT ![c] = Return(@)]
            /\ statusFile' = NoFile
  /\ UNCHANGED <<servers, hasCurrent, commands, outsideServer>>

\* stopServer: process.kill(pid, 'SIGTERM'); a process already gone is ignored
Kill(c) ==
  /\ cli[c].pc = "kill"
  /\ servers' = IF Alive(cli[c].pid) THEN [servers EXCEPT ![cli[c].pid] = "exited"]
                ELSE servers
  /\ cli' = [cli EXCEPT ![c] = [@ EXCEPT !.pc = "unlinkStatus"]]
  /\ UNCHANGED <<statusFile, hasCurrent, commands, outsideServer>>

\* stopServer: finally { fs.unlinkSync(getServerStatusFilePath()) }
UnlinkStatus(c) ==
  /\ cli[c].pc = "unlinkStatus"
  /\ statusFile' = NoFile
  /\ cli' = [cli EXCEPT ![c] = Return(@)]
  /\ UNCHANGED <<servers, hasCurrent, commands, outsideServer>>

\* restartServer: the callback of setTimeout(..., 2000) calls startServer
RestartTimeout(c) ==
  /\ cli[c].pc = "restartTimeout"
  /\ cli' = [cli EXCEPT ![c] = [@ EXCEPT !.pc = "startServer"]]
  /\ UNCHANGED <<servers, statusFile, hasCurrent, commands, outsideServer>>

\* ensureServerRunning: the test of isServerRunning
EnsureServerRunningCheck(c) ==
  /\ cli[c].pc = "ensureServerRunning"
  /\ statusFile' = isServerRunning.statusFile
  /\ cli' = [cli EXCEPT ![c] =
       IF isServerRunning.running THEN [@ EXCEPT !.pc = "getServerStatus"]
       ELSE [@ EXCEPT !.pc = "startServer", !.cont = <<"sleep", "getServerStatus">>]]
  /\ UNCHANGED <<servers, hasCurrent, commands, outsideServer>>

\* ensureServerRunning: Bun.sleepSync(2000); the two seconds are taken to
\* be enough for the server this call spawned to start or to fail
Sleep(c) ==
  /\ cli[c].pc = "sleep"
  /\ cli[c].child # 0 => servers[cli[c].child] \in {"serving", "exited"}
  /\ cli' = [cli EXCEPT ![c] = Return(@)]
  /\ UNCHANGED <<servers, statusFile, hasCurrent, commands, outsideServer>>

\* ensureServerRunning: const port = getServerStatus()?.port || 8192
GetServerStatus(c) ==
  /\ cli[c].pc = "getServerStatus"
  /\ cli' = [cli EXCEPT ![c] =
       [Return(@) EXCEPT !.port = IF statusFile # NoFile THEN statusFile.port
                                  ELSE DefaultPort]]
  /\ UNCHANGED <<servers, statusFile, hasCurrent, commands, outsideServer>>

\* useProcbase: the __current__ symlink is replaced
UseProcbase(c) ==
  /\ cli[c].pc = "useProcbase"
  /\ hasCurrent' = TRUE
  /\ cli' = [cli EXCEPT ![c] = [@ EXCEPT !.pc = "restartIfRunning"]]
  /\ UNCHANGED <<servers, statusFile, commands, outsideServer>>

\* deleteProcbase of the current procbase: the __current__ symlink is
\* removed; without a current procbase there is none to delete
DeleteProcbase(c) ==
  /\ cli[c].pc = "deleteProcbase"
  /\ hasCurrent' = FALSE
  /\ cli' = [cli EXCEPT ![c] = IF hasCurrent THEN [@ EXCEPT !.pc = "restartIfRunning"]
                               ELSE Return(@)]
  /\ UNCHANGED <<servers, statusFile, commands, outsideServer>>

\* useProcbase, deleteProcbase: if (isServerRunning().running) restartServer()
RestartIfRunning(c) ==
  /\ cli[c].pc = "restartIfRunning"
  /\ statusFile' = isServerRunning.statusFile
  /\ cli' = [cli EXCEPT ![c] =
       IF isServerRunning.running
         THEN [@ EXCEPT !.pc = "stopServer", !.cont = <<"restartTimeout">>]
         ELSE Return(@)]
  /\ UNCHANGED <<servers, hasCurrent, commands, outsideServer>>

\* src/server/index.ts up to writeServerStatus: the server exits when
\* getCurrentProcbase throws, and otherwise asks for its ports and writes
\* its pid and port to server-status.json
ServerBoot(p) ==
  /\ servers[p] = "spawned"
  /\ IF hasCurrent
       THEN /\ servers' = [servers EXCEPT ![p] = "starting"]
            /\ statusFile' = [pid |-> p, port |-> DefaultPort]
       ELSE /\ servers' = [servers EXCEPT ![p] = "exited"]
            /\ UNCHANGED statusFile
  /\ UNCHANGED <<hasCurrent, cli, commands, outsideServer>>

\* src/server/index.ts: httpServer.listen answers; EADDRINUSE, when another
\* server holds the port, ends the process
ServerListen(p) ==
  /\ servers[p] = "starting"
  /\ servers' = [servers EXCEPT ![p] =
       IF \E q \in Pids \ {p} : servers[q] = "serving" THEN "exited" ELSE "serving"]
  /\ UNCHANGED <<statusFile, hasCurrent, cli, commands, outsideServer>>

InitServer ==
  /\ symbolTable = createProjectSymbolTable
  /\ CallsIdle
  /\ ClosureIdle
  /\ AnalyzeIdle
  /\ ServicesIdle

NextServer ==
  \/ \E c \in CliIds : \E command \in Commands : Invoke(c, command)
  \/ \E c \in CliIds : StartServerCheck(c)
  \/ \E c \in CliIds : Spawn(c)
  \/ \E c \in CliIds : WriteStatus(c)
  \/ \E c \in CliIds : StopServerCheck(c)
  \/ \E c \in CliIds : Kill(c)
  \/ \E c \in CliIds : UnlinkStatus(c)
  \/ \E c \in CliIds : RestartTimeout(c)
  \/ \E c \in CliIds : EnsureServerRunningCheck(c)
  \/ \E c \in CliIds : Sleep(c)
  \/ \E c \in CliIds : GetServerStatus(c)
  \/ \E c \in CliIds : UseProcbase(c)
  \/ \E c \in CliIds : DeleteProcbase(c)
  \/ \E c \in CliIds : RestartIfRunning(c)
  \/ \E p \in Pids : ServerBoot(p)
  \/ \E p \in Pids : ServerListen(p)

SpecServer == InitServer /\ [][NextServer]_vars

\* every process that can take a step takes one in the end
SpecServerFair == SpecServer /\ WF_vars(NextServer)

\* ---------------------------------------------------------------------------
\* The semantic DB (makeSemanticDB)
\* ---------------------------------------------------------------------------

\* what the calls on the semantic DB leave alone
outsideSemantic == <<symbolTable, callVars, closureVars, analyzeVars, serverVars, sqliteVars>>

Keys == {"k1", "k2"}

\* a promise of the entry store or of the index is waiting to be made,
\* pending, done, failed, or skipped because the call ended before it
Settled == {"done", "failed", "skipped"}

\* the call has returned or thrown
Completed(task) == task.op # "none" /\ task.store \in Settled /\ task.index \in Settled

\* no call on the key is under way
Quiet(key) == \A t \in TaskIds : tasks[t].key = key => Completed(tasks[t])

\* setEntry(key, entry) is called: entryStore.set(key, entry) is awaited
SetEntry(t, key) ==
  /\ tasks[t] = NoTask
  /\ \A u \in TaskIds : u < t => tasks[u] # NoTask
  /\ tasks' = [tasks EXCEPT ![t] =
       [op |-> "setEntry", key |-> key, store |-> "pending", index |-> "waiting"]]
  /\ UNCHANGED <<entryStore, semanticIndex, outsideSemantic>>

\* entryStore.set settles; setEntry goes on to index.set only when it is
\* fulfilled
EntryStoreSet(t, ok) ==
  /\ tasks[t].op = "setEntry"
  /\ tasks[t].store = "pending"
  /\ entryStore' = IF ok THEN entryStore \cup {tasks[t].key} ELSE entryStore
  /\ tasks' = [tasks EXCEPT ![t] =
       IF ok THEN [@ EXCEPT !.store = "done", !.index = "pending"]
       ELSE [@ EXCEPT !.store = "failed", !.index = "skipped"]]
  /\ UNCHANGED <<semanticIndex, outsideSemantic>>

\* index.set(await embedEntry(entry), key) settles
IndexSet(t, ok) ==
  /\ tasks[t].op = "setEntry"
  /\ tasks[t].index = "pending"
  /\ semanticIndex' = IF ok THEN semanticIndex \cup {tasks[t].key} ELSE semanticIndex
  /\ tasks' = [tasks EXCEPT ![t] = [@ EXCEPT !.index = IF ok THEN "done" ELSE "failed"]]
  /\ UNCHANGED <<entryStore, outsideSemantic>>

\* delEntry(key) is called: Promise.all([entryStore.del(key), index.del(key)])
DelEntry(t, key) ==
  /\ tasks[t] = NoTask
  /\ \A u \in TaskIds : u < t => tasks[u] # NoTask
  /\ tasks' = [tasks EXCEPT ![t] =
       [op |-> "delEntry", key |-> key, store |-> "pending", index |-> "pending"]]
  /\ UNCHANGED <<entryStore, semanticIndex, outsideSemantic>>

\* entryStore.del settles
EntryStoreDel(t, ok) ==
  /\ tasks[t].op = "delEntry"
  /\ tasks[t].store = "pending"
  /\ entryStore' = IF ok THEN entryStore \ {tasks[t].key} ELSE entryStore
  /\ tasks' = [tasks EXCEPT ![t] = [@ EXCEPT !.store = IF ok THEN "done" ELSE "failed"]]
  /\ UNCHANGED <<semanticIndex, outsideSemantic>>

\* index.del settles
IndexDel(t, ok) ==
  /\ tasks[t].op = "delEntry"
  /\ tasks[t].index = "pending"
  /\ semanticIndex' = IF ok THEN semanticIndex \ {tasks[t].key} ELSE semanticIndex
  /\ tasks' = [tasks EXCEPT ![t] = [@ EXCEPT !.index = IF ok THEN "done" ELSE "failed"]]
  /\ UNCHANGED <<entryStore, outsideSemantic>>

InitSemantic ==
  /\ symbolTable = createProjectSymbolTable
  /\ CallsIdle
  /\ ClosureIdle
  /\ AnalyzeIdle
  /\ ServicesIdle

NextSemantic ==
  \/ \E t \in TaskIds : \E key \in Keys : SetEntry(t, key)
  \/ \E t \in TaskIds : \E ok \in BOOLEAN : EntryStoreSet(t, ok)
  \/ \E t \in TaskIds : \E ok \in BOOLEAN : IndexSet(t, ok)
  \/ \E t \in TaskIds : \E key \in Keys : DelEntry(t, key)
  \/ \E t \in TaskIds : \E ok \in BOOLEAN : EntryStoreDel(t, ok)
  \/ \E t \in TaskIds : \E ok \in BOOLEAN : IndexDel(t, ok)

SpecSemantic == InitSemantic /\ [][NextSemantic]_vars

\* ---------------------------------------------------------------------------
\* The SQLite symbol DB (symbols and dependencies tables; the inputs carry
\* no imports)
\* ---------------------------------------------------------------------------

\* what the calls on the symbol DB leave alone
outsideSqlite == <<symbolTable, callVars, closureVars, analyzeVars, serverVars, semanticVars>>

\* DELETE FROM <table> WHERE file_path = ?
deleteFile(rows, filePath) == SelectSeq(rows, LAMBDA row : row.file_path # filePath)

\* insertSymbol.run for every entry of a map of symbols; the symbols table
\* has no key but its row id, so that every run adds a row
RECURSIVE insertSymbolEach(_, _, _, _, _)
insertSymbolEach(rows, filePath, symbols, exportType, i) ==
  IF i > Len(symbols) THEN rows
  ELSE insertSymbolEach(
         Append(rows, [name |-> symbols[i].k, file_path |-> filePath,
                       export_type |-> exportType]),
         filePath, symbols, exportType, i + 1)

\* INSERT OR IGNORE INTO dependencies under UNIQUE(dependent_symbol,
\* dependency_symbol)
insertDependency(rows, dependent, dependency, filePath) ==
  IF \E i \in 1..Len(rows) :
       rows[i].dependent_symbol = dependent /\ rows[i].dependency_symbol = dependency
    THEN rows
    ELSE Append(rows, [dependent_symbol |-> dependent, dependency_symbol |-> dependency,
                       file_path |-> filePath])

\* symbol.dependencies.forEach(dep => insertDependency.run(name, dep, filePath))
RECURSIVE insertDependencyEach(_, _, _, _, _)
insertDependencyEach(rows, name, dependencies, filePath, j) ==
  IF j > Len(dependencies) THEN rows
  ELSE insertDependencyEach(insertDependency(rows, name, dependencies[j], filePath),
                            name, dependencies, filePath, j + 1)

RECURSIVE insertDependenciesOf(_, _, _, _)
insertDependenciesOf(rows, filePath, symbols, i) ==
  IF i > Len(symbols) THEN rows
  ELSE insertDependenciesOf(
         insertDependencyEach(rows, symbols[i].k, symbols[i].v.dependencies, filePath, 1),
         filePath, symbols, i + 1)

addSymbols(db, filePath, symbols) ==
  LET clearedSymbols == deleteFile(db.symbols, filePath)
      clearedDependencies == deleteFile(db.dependencies, filePath)
      withExports == insertSymbolEach(clearedSymbols, filePath, symbols.exports, "export", 1)
      withInternal == insertSymbolEach(withExports, filePath, symbols.internal, "internal", 1)
      exportDependencies == insertDependenciesOf(clearedDependencies, filePath, symbols.exports, 1)
  IN [symbols |-> withInternal,
      dependencies |-> insertDependenciesOf(exportDependencies, filePath, symbols.internal, 1)]

NullSymbols == [null |-> TRUE]

\* the symbol getSymbols rebuilds from a row: its dependencies are the rows
\* of the file whose dependent_symbol is the name of the row
symbolOfRow(row, dependencies) ==
  LET symbolDeps == SelectSeq(dependencies, LAMBDA d : d.dependent_symbol = row.name)
  IN [name |-> row.name,
      dependencies |-> [j \in 1..Len(symbolDeps) |-> symbolDeps[j].dependency_symbol]]

RECURSIVE reconstructSymbols(_, _, _, _)
reconstructSymbols(symbols, dependencies, stored, i) ==
  IF i > Len(symbols) THEN stored
  ELSE LET symbol == symbolOfRow(symbols[i], dependencies)
       IN reconstructSymbols(symbols, dependencies,
            IF symbols[i].export_type = "export"
              THEN [stored EXCEPT !.exports = MapSet(@, symbols[i].name, symbol)]
              ELSE [stored EXCEPT !.internal = MapSet(@, symbols[i].name, symbol)],
            i + 1)

getSymbols(db, filePath) ==
  LET symbols == SelectSeq(db.symbols, LAMBDA row : row.file_path = filePath)
      dependencies == SelectSeq(db.dependencies, LAMBDA row : row.file_path = filePath)
  IN IF Len(symbols) = 0 THEN NullSymbols
     ELSE reconstructSymbols(symbols, dependencies,
                             [exports |-> << >>, internal |-> << >>], 1)

\* the tables as one value
Database == [symbols |-> symbolRows, dependencies |-> dependencyRows]

AddSymbols(fileSymbols) ==
  LET db == addSymbols(Database, fileSymbols.fileName, fileSymbols.symbols)
  IN /\ symbolRows' = db.symbols
     /\ dependencyRows' = db.dependencies
     /\ lastAdded' = [lastAdded EXCEPT ![fileSymbols.fileName] = fileSymbols.symbols]
     /\ UNCHANGED outsideSqlite

InitSqlite ==
  /\ symbolTable = createProjectSymbolTable
  /\ CallsIdle
  /\ ClosureIdle
  /\ AnalyzeIdle
  /\ ServicesIdle

NextSqlite == \E fileSymbols \in FileSymbolsInputs : AddSymbols(fileSymbols)

SpecSqlite == InitSqlite /\ [][NextSqlite]_vars

\* ---------------------------------------------------------------------------
\* Failures while analysing the source files
\* ---------------------------------------------------------------------------

AnalyzedSourceFiles == SetElems(getSourceFiles(program, rootFiles))
CompilerErrors ==
  LET isError(d) == d.category = "Error" IN SelectSeq(compilerDiagnostics, isError)
AnalysisRan == analysis # NoAnalysis /\ "error" \notin DOMAIN analysis
AnalysisRanStrictFailed ==
  analysis # NoAnalysis /\ "error" \in DOMAIN analysis
    /\ analysis.error = "StrictModeCompileErrors"

\* C17: when the type checker fails on one source file, only that file is
\* dropped: the analysis still returns a result, and every other root file
\* has its symbols in the table.
C17_FailingFileIsSkipped ==
  (analysis # NoAnalysis /\ ~AnalysisRanStrictFailed) =>
    /\ analysis.outcome \in {"returned", "completed"}
    /\ \A sf \in AnalyzedSourceFiles :
         IF sf.checkerThrows
           THEN ~MapHas(symbolTable.fileSymbols, sf.fileName)
           ELSE MapHas(symbolTable.fileSymbols, sf.fileName)

\* C18: with compiler errors and strict set, runAnalysis fails before any
\* analysis: no result, no file inserted. Without strict (or without
\* errors) it analyses the same files as analyzeProject does and prints
\* exactly the compiler errors; analyzeProject returns them in its result.
C18_StrictModeGate ==
  [][/\ \A o \in CliOptionsInputs :
          RunAnalysis(o) =>
            /\ analysis'.printed = CompilerErrors
            /\ IF o.strict /\ Len(CompilerErrors) > 0
                 THEN /\ analysis'.outcome = "failed"
                      /\ analysis'.error = "StrictModeCompileErrors"
                      /\ result' = NoResult
                      /\ symbolTable' = symbolTable
                 ELSE /\ symbolTable' = analyzeFiles(symbolTable,
                                                     getSourceFiles(program, rootFiles),
                                                     analysisOptions).symbolTable
                      /\ (\A sf \in AnalyzedSourceFiles : ~sf.checkerThrows) =>
                           /\ analysis'.outcome = "completed"
                           /\ result' # NoResult
     /\ (AnalyzeProject /\ analysis'.outcome = "returned") =>
          analysis'.diagnostics = CompilerErrors]_vars

C18_Witness ==
  /\ AnalysisRanStrictFailed
  /\ Len(analysis.printed) > 0
  /\ Len(compilerDiagnostics) > Len(analysis.printed)
  /\ result = NoResult
  /\ Len(symbolTable.fileSymbols) = 0


\* ---------------------------------------------------------------------------
\* Impact analysis
\* ---------------------------------------------------------------------------

ImpactIsFresh == lastCall.op = "calculateImpactAnalysis"

\* C19: calculateImpactAnalysis(id) returns as allDependents the set
\* calculateReverseClosure([id]), as impactCount the size of that set, and
\* as directDependents the reverse edges of id, cycles or not.
C19_ImpactIsReverseClosure ==
  ImpactIsFresh =>
    LET id == lastCall.symbolName
        closure == SetElems(calculateReverseClosure(symbolTable, <<id>>))
    IN /\ SetElems(report.allDependents) = closure
       /\ Len(report.allDependents) = Cardinality(closure)
       /\ report.impactCount = Cardinality(closure)
       /\ SetElems(report.directDependents) = {a \in AllIds : ReverseEdge(symbolTable, id, a)}
       /\ Len(report.directDependents) = Cardinality(SetElems(report.directDependents))

\* an analysis of a symbol on a cycle that also has a dependent two edges away
C19_Witness ==
  /\ ImpactIsFresh
  /\ CycleAmongSymbols(symbolTable)
  /\ lastCall.symbolName \in SetElems(report.directDependents)
        \cup UNION {SetElems(getDependents(symbolTable, d)) : d \in SetElems(report.directDependents)}
  /\ SetElems(report.allDependents) \ SetElems(report.directDependents) # {}
  /\ report.impactCount >= 3


\* ---------------------------------------------------------------------------
\* The DOT report
\* ---------------------------------------------------------------------------

EmittedNodes == {report.nodes[n].id : n \in 1..Len(report.nodes)}

\* C20: every edge of the DOT report joins two emitted nodes, also when
\* maxNodes cuts the displayed subset short and when the subset holds an
\* id without a symbol.
C20_EdgesJoinEmittedNodes ==
  lastCall.op = "generateDependencyGraph" =>
    \A n \in 1..Len(report.edges) :
      /\ report.edges[n].from \in EmittedNodes
      /\ report.edges[n].to \in EmittedNodes


\* ---------------------------------------------------------------------------
\* The adjacency list report
\* ---------------------------------------------------------------------------

AdjacencyIsFresh ==
  /\ lastCall.op = "generateAdjacencyListReport"
  /\ result = performTreeShaking(symbolTable, result.entryPoints)

\* the lines of the top level that name a symbol
TopLevelLines ==
  LET named(line) == line.indent = 0 /\ Len(line.text) > 0
  IN SelectSeq(report.lines, named)

\* the texts of the lines directly under line i: the lines one step deeper,
\* up to the next line that is not deeper than line i
LinesUnder(i) ==
  LET lines == report.lines
      stops == {j \in (i + 1)..Len(lines) : lines[j].indent <= lines[i].indent}
      end == IF stops = {} THEN Len(lines) + 1
             ELSE CHOOSE j \in stops : \A l \in stops : j <= l
      block == SubSeq(lines, i + 1, end - 1)
      direct(line) == line.indent = lines[i].indent + 1
      children == SelectSeq(block, direct)
  IN [n \in 1..Len(children) |-> children[n].text]

\* the local names of a set of ids, the ids taken in string order
NamesInIdOrder(ids) ==
  LET sorted == CHOOSE q \in [1..Cardinality(ids) -> ids] :
                  \A m, n \in 1..Cardinality(ids) : m < n => stringLess(q[m], q[n])
  IN [n \in 1..Cardinality(ids) |-> extractSymbolName(sorted[n])]

\* C21: the adjacency list has, for every symbol of included and unused, an
\* entry with the symbol and under it its dependencies in sorted order, or
\* the marker for none; the entries of the top level are one per symbol
\* and sorted by local name.
C21_AdjacencyListsEverySymbol ==
  AdjacencyIsFresh =>
    LET all == Included \cup Unused
    IN /\ Len(TopLevelLines) = Cardinality(all)
       /\ \A s \in all : \E n \in 1..Len(TopLevelLines) :
            TopLevelLines[n].text = extractSymbolName(s)
       /\ \A n \in 1..(Len(TopLevelLines) - 1) :
            ~stringLess(TopLevelLines[n + 1].text, TopLevelLines[n].text)
       /\ \A s \in all : \E i \in 1..Len(report.lines) :
            /\ report.lines[i].text = extractSymbolName(s)
            /\ LinesUnder(i) = IF EdgeTargets(symbolTable, s) = {}
                                 THEN <<<<"(no dependencies)">>>>
                                 ELSE NamesInIdOrder(EdgeTargets(symbolTable, s))


\* ---------------------------------------------------------------------------
\* The largest symbols
\* ---------------------------------------------------------------------------

\* C22: findLargestSymbols(k) returns min(k, number of symbols) distinct
\* symbols with their dependency counts, no symbol left out counts more
\* than one returned, the counts do not increase, and symbols that count
\* the same come in the order of their ids.
C22_LargestSymbolsRanked ==
  lastCall.op = "findLargestSymbols" =>
    LET largest == report.largest
        returned == {largest[n].symbol : n \in 1..Len(largest)}
    IN /\ Len(largest) = IF lastCall.limit < Cardinality(GlobalIds)
                           THEN lastCall.limit ELSE Cardinality(GlobalIds)
       /\ Cardinality(returned) = Len(largest)
       /\ returned \subseteq GlobalIds
       /\ \A n \in 1..Len(largest) :
            /\ largest[n].dependencyCount = Cardinality(EdgeTargets(symbolTable, largest[n].symbol))
            /\ \A s \in GlobalIds \ returned :
                 Cardinality(EdgeTargets(symbolTable, s)) <= largest[n].dependencyCount
       /\ \A n \in 1..(Len(largest) - 1) :
            /\ largest[n].dependencyCount >= largest[n + 1].dependencyCount
            /\ largest[n].dependencyCount = largest[n + 1].dependencyCount =>
                 stringLess(largest[n].symbol, largest[n + 1].symbol)


\* ---------------------------------------------------------------------------
\* The symbols of a result grouped by file
\* ---------------------------------------------------------------------------

\* the place of the ":" of an id file_key ":" name
ColonOf(id) == CHOOSE i \in 1..Len(id) : id[i] = ":"
FileKeyOf(id) == SubSeq(id, 1, ColonOf(id) - 1)
NameOf(id) == SubSeq(id, ColonOf(id) + 1, Len(id))

\* how often name stands in the group of fileKey
TimesInGroup(grouped, fileKey, name) ==
  IF MapHas(grouped, fileKey)
    THEN Cardinality({n \in 1..Len(MapGet(grouped, fileKey)) : MapGet(grouped, fileKey)[n] = name})
    ELSE 0

GroupsIds(grouped, ids) ==
  /\ \A id \in ids : TimesInGroup(grouped, FileKeyOf(id), NameOf(id)) = 1
  /\ \A n \in 1..Len(grouped) :
       /\ Len(grouped[n].v) > 0
       /\ \A i \in 1..Len(grouped[n].v) :
            \E id \in ids : FileKeyOf(id) = grouped[n].k /\ NameOf(id) = grouped[n].v[i]
  /\ Sum([n \in 1..Len(grouped) |-> Len(grouped[n].v)]) = Cardinality(ids)

AnalysisCompleted ==
  analysis # NoAnalysis /\ analysis.outcome \in {"returned", "completed"}

TypeDeclarationKinds == {"ClassDeclaration", "InterfaceDeclaration", "TypeAliasDeclaration"}

\* the identifiers of the top-level declarations of a source file that name
\* another symbol: not a property name, not the declaration's own name
ReferencesIn(sf) ==
  UNION {{[from |-> sf.statements[i].declaration.name, identifier |-> sf.statements[i].declaration.identifiers[n]] :
            n \in {m \in 1..Len(sf.statements[i].declaration.identifiers) :
                     LET id == sf.statements[i].declaration.identifiers[m]
                     IN id.symbol /\ ~id.propertyName /\ ~id.enclosedByDeclaration
                        /\ ~id.namesVariable /\ id.declaration.kind # "Parameter"}} :
         i \in {j \in 1..Len(sf.statements) : sf.statements[j].kind \in DeclarationKinds}}

\* the local names of the dependencies registered for name of file sf
DependencyNamesOf(sf, name) ==
  {extractSymbolName(d) :
     d \in SetElems(getDependencies(symbolTable, fullNameOf(sf.fileName, name)))}

\* C24: a reference to a class, an interface or a type alias is dropped
\* when the identifier is in a type position, and is a dependency when the
\* identifier is in a value position, as in new C().
C24_ValueReferenceToClassIsEmitted ==
  AnalysisCompleted =>
    \A sf \in AnalyzedSourceFiles : \A r \in ReferencesIn(sf) :
      (r.identifier.declaration.kind \in TypeDeclarationKinds
         /\ r.identifier.declaration.fileName = sf.fileName) =>
        IF r.identifier.parentIsTypeReference
          THEN <<r.identifier.symbolName>> \notin DependencyNamesOf(sf, r.from)
          ELSE <<r.identifier.symbolName>> \in DependencyNamesOf(sf, r.from)


\* the names the top-level declarations of a source file give
TopLevelNames(sf) ==
  {sf.statements[i].declaration.name :
     i \in {j \in 1..Len(sf.statements) :
              sf.statements[j].kind \in DeclarationKinds \cup {"VariableStatement"}}}

\* the references of sf to another top-level symbol of sf from a value
\* position, no parameter or local of the referring declaration having
\* the name
ValueReferencesIn(sf) ==
  {r \in ReferencesIn(sf) :
     /\ r.identifier.declaration.fileName = sf.fileName
     /\ r.identifier.declaration.kind # "ImportSpecifier"
     /\ r.identifier.symbolName \in TopLevelNames(sf) \ {r.from}
     /\ ~r.identifier.parentIsTypeReference}

\* C25: a symbol that references another top-level symbol N of its file in
\* a value position has the id of N, file ":" N, among its dependencies; in
\* export function x() { return y(); } function y() { return 1; } the
\* dependencies of x are exactly the id of y.
C25_SameFileReferenceIsDependency ==
  AnalysisCompleted =>
    \A sf \in AnalyzedSourceFiles :
      /\ \A r \in ValueReferencesIn(sf) :
           fullNameOf(sf.fileName, r.identifier.symbolName)
             \in SetElems(getDependencies(symbolTable, fullNameOf(sf.fileName, r.from)))
      /\ sf = CallsSibling(sf.fileName) =>
           SetElems(getDependencies(symbolTable, fullNameOf(sf.fileName, "x")))
             = {fullNameOf(sf.fileName, "y")}


\* ---------------------------------------------------------------------------
\* The server processes
\* ---------------------------------------------------------------------------

AliveServers == {p \in Pids : Alive(p)}

\* C26: whatever the interleaving of the commands of the CLI processes, at
\* most one server process the tool spawned is alive.
C26_AtMostOneServerAlive == Cardinality(AliveServers) <= 1

\* restartServer is at its first step while server old is the one server
\* running and isServerRunning finds it; no other command is in progress and none follows, so that
\* nothing but the restart acts on the servers
RestartInvokedOn(old) ==
  /\ AliveServers = {old}
  /\ servers[old] = "serving"
  /\ isServerRunning.running /\ isServerRunning.pid = old
  /\ commands = MaxCommands
  /\ \E c \in CliIds :
       /\ cli[c].pc = "stopServer"
       /\ cli[c].cont = <<"restartTimeout">>
       /\ \A d \in CliIds \ {c} : cli[d].pc = "idle"

\* server old is stopped, another server is running and server-status.json
\* names its pid
RestartedAfter(old) ==
  /\ servers[old] = "exited"
  /\ \E p \in Pids \ {old} :
       /\ servers[p] = "serving"
       /\ statusFile # NoFile
       /\ statusFile.pid = p

\* C27: restartServer invoked while a server is running leads to the old
\* server stopped and a new server running, named by server-status.json.
C27_RestartLeadsToNewServer ==
  \A old \in Pids : RestartInvokedOn(old) ~> RestartedAfter(old)

\* no CLI process but c is ever given a command
OnlyCli(c) == \A d \in CliIds \ {c} : cli[d] = IdleCli

\* ensureServerRunning has returned its port to CLI process c
EnsureReturned(c) == cli[c].pc = "idle" /\ cli[c].port # 0

\* C28: when ensureServerRunning has returned in a CLI process, the only one
\* to be given commands, a server process is alive and the port returned is
\* the port the server is given.
C28_EnsureReturnsRunningServer ==
  \A c \in CliIds :
    ([]OnlyCli(c)) =>
      [](EnsureReturned(c) =>
           /\ \E p \in Pids : Alive(p)
           /\ cli[c].port = DefaultPort)


\* ---------------------------------------------------------------------------
\* The semantic DB
\* ---------------------------------------------------------------------------

\* C29: once every setEntry and delEntry call on a key has completed, the key
\* has an entry in the entry store exactly when the semantic index holds it.
C29_StoreAndIndexAgree ==
  \A key \in Keys : Quiet(key) => (key \in entryStore <=> key \in semanticIndex)


\* ---------------------------------------------------------------------------
\* The SQLite symbol DB
\* ---------------------------------------------------------------------------

\* the names of a map of symbols, each with the set of its dependencies
NamesWithDependencies(symbols) ==
  {<<symbols[i].k, SetElems(symbols[i].v.dependencies)>> : i \in 1..Len(symbols)}

\* getSymbols gives the names of the symbols last added for the file, with
\* their dependency sets
StoredAsAdded(filePath) ==
  LET stored == getSymbols(Database, filePath)
      given == lastAdded[filePath]
  IN /\ stored # NullSymbols
     /\ NamesWithDependencies(stored.exports) = NamesWithDependencies(given.exports)
     /\ NamesWithDependencies(stored.internal) = NamesWithDependencies(given.internal)

\* C30: after any sequence of addSymbols calls, getSymbols(f) gives for the
\* most recent addSymbols(f, S) exactly the symbol names of S with exactly
\* their dependency sets, whatever was added for the other files.
C30_GetSymbolsGivesLastAdded ==
  \A filePath \in SqliteFiles : lastAdded[filePath] # NotAdded => StoredAsAdded(filePath)

====
